---- MODULE Spec2Model ----
(***************************************************************************)
(* A model of the semantic builder of unreal-doc                           *)
(* (src/ast/unreal_cpp_header.rs): the walk over a pest parse tree that    *)
(* fills a Document.                                                       *)
(*                                                                         *)
(* A parse-tree node (pest's Pair<Rule>) is a record                       *)
(*    [rule, text, kids, line, exp]                                        *)
(* rule is the Rule variant, text is as_str() (a sequence of characters),  *)
(* kids is into_inner(), line is line_col().0 and exp is the answer the    *)
(* export predicate gives for the entity built from the node.              *)
(* Option<T> is a sequence of length 0 (None) or 1 (Some).                 *)
(*                                                                         *)
(* The last part models include_book_index of the mdbook backend           *)
(* (src/backends/mdbook.rs), the recursive walk over the index.txt files   *)
(* of a book, as a machine with an explicit call stack.                    *)
(***************************************************************************)
EXTENDS Integers, Sequences, FiniteSets, TLC

VARIABLES document, returned, log, input, before, processed,
          input_files, output_files, index, stack, calls

header_vars == <<document, returned, log, input, before, processed>>

(* include_book_index: its two maps, the index text, the frames of the     *)
(* calls in progress (innermost last) and the calls made so far            *)
book_vars == <<input_files, output_files, index, stack, calls>>

vars == <<header_vars, book_vars>>

----------------------------------------------------------------------------
(* Option<T> *)
None == <<>>
Some(x) == <<x>>
IsSome(o) == Len(o) = 1

(* generic sequence helpers *)
Last(s) == s[Len(s)]
Range(s) == {s[i] : i \in 1..Len(s)}
SeqsUpTo(S, n) == UNION {[1..k -> S] : k \in 0..n}

RECURSIVE Concat(_)
Concat(ss) == IF ss = <<>> THEN <<>> ELSE Head(ss) \o Concat(Tail(ss))

----------------------------------------------------------------------------
(* Characters.  NBSP stands for U+00A0: char::is_whitespace holds of it and *)
(* it takes two bytes in UTF-8; every other character of the model takes    *)
(* one.                                                                     *)
NBSP == "U+00A0"
NL == "\n"
is_whitespace(c) == c \in {" ", NBSP, NL, "\t"}
len_utf8(c) == IF c = NBSP THEN 2 ELSE 1

RECURSIVE ByteLen(_)
ByteLen(s) == IF s = <<>> THEN 0 ELSE len_utf8(Head(s)) + ByteLen(Tail(s))

(* str::trim *)
RECURSIVE trim_start(_)
trim_start(s) ==
    IF s # <<>> /\ is_whitespace(Head(s)) THEN trim_start(Tail(s)) ELSE s
RECURSIVE trim_end(_)
trim_end(s) ==
    IF s # <<>> /\ is_whitespace(Last(s))
    THEN trim_end(SubSeq(s, 1, Len(s) - 1)) ELSE s
trim(s) == trim_end(trim_start(s))

(* str::lines: split at "\n"; a final empty piece is not a line *)
RECURSIVE SplitNL(_, _)
SplitNL(s, cur) ==
    IF s = <<>> THEN <<cur>>
    ELSE IF Head(s) = NL THEN <<cur>> \o SplitNL(Tail(s), <<>>)
    ELSE SplitNL(Tail(s), Append(cur, Head(s)))
drop_last_empty(pieces) ==
    IF Last(pieces) = <<>> THEN SubSeq(pieces, 1, Len(pieces) - 1) ELSE pieces

lines(s) == drop_last_empty(SplitNL(s, <<>>))

(* [String]::join("\n") *)
RECURSIVE join(_)
join(ls) ==
    IF ls = <<>> THEN <<>>
    ELSE IF Len(ls) = 1 THEN ls[1]
    ELSE ls[1] \o <<NL>> \o join(Tail(ls))

----------------------------------------------------------------------------
(* Parse-tree nodes *)
Node(rule, text, kids) ==
    [rule |-> rule, text |-> text, kids |-> kids, line |-> 1, exp |-> TRUE]
NodeX(rule, text, kids, exp) ==
    [rule |-> rule, text |-> text, kids |-> kids, line |-> 1, exp |-> exp]

RECURSIVE Filter(_, _)
Filter(kids, rules) ==
    IF kids = <<>> THEN <<>>
    ELSE IF Head(kids).rule \in rules THEN <<Head(kids)>> \o Filter(Tail(kids), rules)
    ELSE Filter(Tail(kids), rules)

Kids(pair, rule) == Filter(pair.kids, {rule})

(* The world a walk threads: the Document, the lines printed so far, and    *)
(* whether the walk has panicked (a panic unwinds: nothing runs after it).  *)
World(doc, out, panic) == [doc |-> doc, out |-> out, panic |-> panic]

(* A loop "for pair in pair.into_inner()" is an operator X_loop(acc, pairs)  *)
(* that applies the loop body X_child to the children in order.             *)

----------------------------------------------------------------------------
(* Document and its entities (Default::default() of each) *)
DocumentDefault ==
    [enums |-> <<>>, structs |-> <<>>, classes |-> <<>>, functions |-> <<>>,
     delegates |-> <<>>, proxy_functions |-> <<>>, proxy_properties |-> <<>>,
     snippets |-> {}]

EnumDefault ==
    [name |-> <<>>, doc_comments |-> None, specifiers |-> None, variants |-> <<>>,
     filename |-> "", fileline |-> 0, exp |-> TRUE]

StructClassDefault ==
    [mode |-> "Struct", name |-> <<>>, doc_comments |-> None, specifiers |-> None,
     template |-> None, api |-> None, inherits |-> <<>>, injects |-> {},
     properties |-> <<>>, methods |-> <<>>, constructors |-> <<>>,
     filename |-> "", fileline |-> 0, exp |-> TRUE]

(* PropertyArray: the value of a property that is no array, Unsized, or     *)
(* Sized with the size expression                                           *)
PropertyArrayDefault == [kind |-> "None", size |-> <<>>]
Unsized == [kind |-> "Unsized", size |-> <<>>]
Sized(size) == [kind |-> "Sized", size |-> size]

PropertyDefault ==
    [name |-> <<>>, value_type |-> <<>>, array |-> PropertyArrayDefault,
     default_value |-> None, specifiers |-> None,
     is_static |-> FALSE, visibility |-> "Public", doc_comments |-> None,
     exp |-> TRUE]

ArgumentDefault ==
    [name |-> None, value_type |-> <<>>, default_value |-> None,
     doc_comments |-> None]

FunctionDefault ==
    [name |-> <<>>, return_type |-> None, arguments |-> <<>>,
     template |-> None, specifiers |-> None,
     is_virtual |-> FALSE, is_const_this |-> FALSE, is_override |-> FALSE,
     is_static |-> FALSE, visibility |-> "Public", doc_comments |-> None,
     filename |-> "", fileline |-> 0, exp |-> TRUE]

DelegateDefault ==
    [name |-> <<>>, multicast |-> FALSE, dynamic |-> FALSE, arguments |-> <<>>,
     return_type |-> None, doc_comments |-> None, specifiers |-> None,
     filename |-> "", fileline |-> 0, exp |-> TRUE]

(* The export predicate of document.rs, queried per entity: the model       *)
(* carries its answer on the node the entity is built from.                 *)
can_export(element) == element.exp

default_visibility(mode) == IF mode = "Struct" THEN "Public" ELSE "Private"

(* Document.snippets is a HashMap<String, String>: a set of <<id, text>>    *)
(* with at most one pair per id                                             *)
contains_key(m, id) == \E e \in m : e[1] = id
(* a variant of insert under which the first registration wins *)
insert_if_absent(m, id, content) ==
    IF \E e \in m : e[1] = id THEN m ELSE m \cup {<<id, content>>}

insert(m, id, content) == {e \in m : e[1] # id} \cup {<<id, content>>}
get(m, id) == (CHOOSE e \in m : e[1] = id)[2]

----------------------------------------------------------------------------
(* Text primitives *)
parse_identifier(pair) == pair.text

parse_value_type(pair) == trim(pair.text)

parse_default_value(pair) == pair.kids[1].text

parse_template_declaration(pair) == trim(pair.text)

parse_property_array(pair) ==
    IF pair.kids # <<>> THEN Sized(trim(pair.kids[1].text)) ELSE Unsized

parse_visibility(pair) ==
    IF pair.text = <<"p", "r", "i", "v", "a", "t", "e">> THEN Some("Private")
    ELSE IF pair.text = <<"p", "r", "o", "t", "e", "c", "t", "e", "d">>
    THEN Some("Protected")
    ELSE IF pair.text = <<"p", "u", "b", "l", "i", "c">> THEN Some("Public")
    ELSE None

(* line.find("///"): the index before the first "///", None without one *)
RECURSIVE find_marker(_, _)
find_marker(line, loc) ==
    IF Len(line) < loc + 3 THEN None
    ELSE IF SubSeq(line, loc + 1, loc + 3) = <<"/", "/", "/">> THEN Some(loc)
    ELSE find_marker(line, loc + 1)

(* a variant that keeps the whitespace around the text after the marker *)
after_marker_untrimmed(line, loc) ==
    IF IsSome(loc) THEN SubSeq(line, loc[1] + 4, Len(line)) ELSE <<>>

after_marker(line, loc) ==
    IF IsSome(loc) THEN trim(SubSeq(line, loc[1] + 4, Len(line))) ELSE <<>>

doc_comment_line(line) == after_marker(line, find_marker(line, 0))

doc_comments_of(ls) == join([i \in 1..Len(ls) |-> doc_comment_line(ls[i])])

parse_doc_comments(pair) == doc_comments_of(lines(pair.text))

----------------------------------------------------------------------------
(* Snippets *)
RECURSIVE leading_whitespace(_)
leading_whitespace(line) ==
    IF line # <<>> /\ is_whitespace(Head(line))
    THEN 1 + leading_whitespace(Tail(line)) ELSE 0

min2(a, b) == IF a <= b THEN a ELSE b

RECURSIVE min_level(_)
min_level(counts) ==
    IF Len(counts) = 1 THEN counts[1]
    ELSE min2(counts[1], min_level(Tail(counts)))

(* line[level..]: level counts bytes; None is the panic of a cut past the   *)
(* end of the line or inside a character                                    *)
RECURSIVE slice_from(_, _)
slice_from(line, level) ==
    IF level = 0 THEN Some(line)
    ELSE IF line = <<>> THEN None
    ELSE IF len_utf8(Head(line)) > level THEN None
    ELSE slice_from(Tail(line), level - len_utf8(Head(line)))

level_of(ls) ==
    IF ls = <<>> THEN 0
    ELSE min_level([i \in 1..Len(ls) |-> leading_whitespace(ls[i])])

snippet_level(text) == level_of(lines(text))

(* Some(text), or None when a slice panics *)
rejoin(cut) ==
    IF \E i \in 1..Len(cut) : cut[i] = None THEN None
    ELSE Some(join([i \in 1..Len(cut) |-> cut[i][1]]))

strip_lines(ls, level) == rejoin([i \in 1..Len(ls) |-> slice_from(ls[i], level)])

parse_snippet_inner(pair) == strip_lines(lines(pair.text), snippet_level(pair.text))

snippet_content(acc, content) ==
    IF content = None THEN [acc EXCEPT !.panic = TRUE]
    ELSE [acc EXCEPT !.content = content]

parse_snippet_child(acc, pair) ==
    IF acc.panic THEN acc
    ELSE IF pair.rule = "identifier"
    THEN [acc EXCEPT !.id = Some(parse_identifier(pair))]
    ELSE IF pair.rule = "snippet_inner"
    THEN snippet_content(acc, parse_snippet_inner(pair))
    ELSE acc

RECURSIVE parse_snippet_loop(_, _)
parse_snippet_loop(acc, pairs) ==
    IF pairs = <<>> THEN acc
    ELSE parse_snippet_loop(parse_snippet_child(acc, Head(pairs)), Tail(pairs))

(* r: [id, content, panic] as the loop left them *)
snippet_insert(w, r) ==
    IF w.panic THEN w
    ELSE IF r.panic THEN [w EXCEPT !.panic = TRUE]
    ELSE IF IsSome(r.id) /\ IsSome(r.content)
    THEN World([w.doc EXCEPT !.snippets = insert(@, r.id[1], r.content[1])],
               IF contains_key(w.doc.snippets, r.id[1])
               THEN Append(w.out, <<"snippet", r.id[1]>>) ELSE w.out,
               FALSE)
    ELSE w

parse_snippet(pair, w) ==
    snippet_insert(w, parse_snippet_loop(
                          [id |-> None, content |-> None, panic |-> FALSE], pair.kids))

----------------------------------------------------------------------------
(* Specifiers: attributes and meta are lists of Attribute *)
SpecifiersDefault == [attributes |-> <<>>, meta |-> <<>>]
Single(name) == [tag |-> "Single", key |-> name, value |-> <<>>]
Pair(key, value) == [tag |-> "Pair", key |-> key, value |-> value]

(* the Attribute of a specifier_single or specifier_pair child *)
attribute_of(pair) ==
    IF pair.rule = "specifier_single" THEN Single(parse_identifier(pair.kids[1]))
    ELSE Pair(parse_identifier(pair.kids[1]), parse_identifier(pair.kids[2]))

(* a variant that appends the children of a meta group to attributes *)
parse_specifier_meta_child_flat(result, pair) ==
    IF pair.rule \in {"specifier_single", "specifier_pair"}
    THEN [result EXCEPT !.attributes = Append(@, attribute_of(pair))]
    ELSE result

parse_specifier_meta_child(result, pair) ==
    IF pair.rule \in {"specifier_single", "specifier_pair"}
    THEN [result EXCEPT !.meta = Append(@, attribute_of(pair))]
    ELSE result

RECURSIVE parse_specifier_meta_loop(_, _)
parse_specifier_meta_loop(acc, pairs) ==
    IF pairs = <<>> THEN acc
    ELSE parse_specifier_meta_loop(parse_specifier_meta_child(acc, Head(pairs)), Tail(pairs))

parse_specifier_meta(pair, result) == parse_specifier_meta_loop(result, pair.kids)

parse_specifiers_child(result, pair) ==
    IF pair.rule \in {"specifier_single", "specifier_pair"}
    THEN [result EXCEPT !.attributes = Append(@, attribute_of(pair))]
    ELSE IF pair.rule = "specifier_meta" THEN parse_specifier_meta(pair, result)
    ELSE result

RECURSIVE parse_specifiers_loop(_, _)
parse_specifiers_loop(acc, pairs) ==
    IF pairs = <<>> THEN acc
    ELSE parse_specifiers_loop(parse_specifiers_child(acc, Head(pairs)), Tail(pairs))

(* the loop runs over the children of the first child, when there is one *)
parse_specifiers(pair) ==
    IF pair.kids # <<>> THEN parse_specifiers_loop(SpecifiersDefault, pair.kids[1].kids)
    ELSE SpecifiersDefault

----------------------------------------------------------------------------
(* Enums *)
parse_enum_signature(pair) == parse_identifier(pair.kids[1])

parse_enum_body(pair, result) ==
    [result EXCEPT
        !.variants = @ \o [i \in 1..Len(pair.kids) |-> parse_identifier(pair.kids[i])]]

parse_element_enum_child(result, pair) ==
    IF pair.rule = "uenum"
    THEN [result EXCEPT !.specifiers = Some(parse_specifiers(pair))]
    ELSE IF pair.rule = "enum_signature"
    THEN [result EXCEPT !.name = parse_enum_signature(pair)]
    ELSE IF pair.rule = "enum_body" THEN parse_enum_body(pair, result)
    ELSE result

RECURSIVE parse_element_enum_loop(_, _)
parse_element_enum_loop(acc, pairs) ==
    IF pairs = <<>> THEN acc
    ELSE parse_element_enum_loop(parse_element_enum_child(acc, Head(pairs)), Tail(pairs))

(* a variant that puts the file's name where the doc comments belong *)
parse_element_enum_file_in_docs(pair, doc_comments, filename) ==
    parse_element_enum_loop([EnumDefault EXCEPT !.doc_comments = Some(<<filename>>), !.fileline = pair.line, !.filename = filename, !.exp = pair.exp], pair.kids)

parse_element_enum(pair, doc_comments, filename) ==
    parse_element_enum_loop([EnumDefault EXCEPT !.doc_comments = doc_comments, !.fileline = pair.line, !.filename = filename, !.exp = pair.exp], pair.kids)

----------------------------------------------------------------------------
(* Properties *)
parse_property_signature_child(result, pair) ==
    IF pair.rule = "value_type"
    THEN [result EXCEPT !.value_type = parse_value_type(pair)]
    ELSE IF pair.rule = "identifier"
    THEN [result EXCEPT !.name = parse_identifier(pair)]
    ELSE IF pair.rule = "property_array"
    THEN [result EXCEPT !.array = parse_property_array(pair)]
    ELSE IF pair.rule = "default_value"
    THEN [result EXCEPT !.default_value = Some(parse_default_value(pair))]
    ELSE IF pair.rule = "staticness" THEN [result EXCEPT !.is_static = TRUE]
    ELSE result

RECURSIVE parse_property_signature_loop(_, _)
parse_property_signature_loop(acc, pairs) ==
    IF pairs = <<>> THEN acc
    ELSE parse_property_signature_loop(parse_property_signature_child(acc, Head(pairs)), Tail(pairs))

parse_property_signature(pair, result) ==
    parse_property_signature_loop(result, pair.kids)

parse_element_property_child(result, pair) ==
    IF pair.rule = "uproperty"
    THEN [result EXCEPT !.specifiers = Some(parse_specifiers(pair))]
    ELSE IF pair.rule = "property_signature"
    THEN parse_property_signature(pair, result)
    ELSE result

RECURSIVE parse_element_property_loop(_, _)
parse_element_property_loop(acc, pairs) ==
    IF pairs = <<>> THEN acc
    ELSE parse_element_property_loop(parse_element_property_child(acc, Head(pairs)), Tail(pairs))

parse_element_property(pair, doc_comments, visibility) ==
    parse_element_property_loop([PropertyDefault EXCEPT !.doc_comments = doc_comments, !.visibility = visibility, !.exp = pair.exp], pair.kids)

----------------------------------------------------------------------------
(* Delegates *)
parse_delegate_arg_child_plain(arg, pair, is_dynamic) ==
    IF pair.rule = "delegate_argument_name"
    THEN [arg EXCEPT !.name = Some(parse_identifier(pair))]
    ELSE IF pair.rule = "value_type"
    THEN [arg EXCEPT !.value_type = parse_value_type(pair)]
    ELSE arg

parse_delegate_arg_child(arg, pair, is_dynamic) ==
    IF is_dynamic
    THEN IF pair.rule = "identifier"
         THEN [arg EXCEPT !.name = Some(parse_identifier(pair))]
         ELSE IF pair.rule = "value_type"
         THEN [arg EXCEPT !.value_type = parse_value_type(pair)]
         ELSE arg
    ELSE IF pair.rule = "delegate_argument_name"
         THEN [arg EXCEPT !.name = Some(parse_identifier(pair))]
         ELSE IF pair.rule = "value_type"
         THEN [arg EXCEPT !.value_type = parse_value_type(pair)]
         ELSE arg

RECURSIVE parse_delegate_arg_loop(_, _, _)
parse_delegate_arg_loop(acc, pairs, is_dynamic) ==
    IF pairs = <<>> THEN acc
    ELSE parse_delegate_arg_loop(parse_delegate_arg_child(acc, Head(pairs), is_dynamic), Tail(pairs), is_dynamic)

parse_delegate_arg(pair, is_dynamic) ==
    parse_delegate_arg_loop(ArgumentDefault, pair.kids, is_dynamic)

parse_delegate_args_child(delegate, pair) ==
    IF pair.rule \in {"delegate_argument", "dynamic_delegate_argument"}
    THEN [delegate EXCEPT
             !.arguments = Append(@, parse_delegate_arg(pair, delegate.dynamic))]
    ELSE delegate

RECURSIVE parse_delegate_args_loop(_, _)
parse_delegate_args_loop(acc, pairs) ==
    IF pairs = <<>> THEN acc
    ELSE parse_delegate_args_loop(parse_delegate_args_child(acc, Head(pairs)), Tail(pairs))

parse_delegate_args(pair, delegate) ==
    parse_delegate_args_loop(delegate, pair.kids)

delegate_multicast(rule) ==
    rule = "element_multicast_delegate" \/ rule = "element_dyn_multicast_delegate"

delegate_dynamic_only(rule) == rule = "element_dynamic_delegate"

delegate_dynamic(rule) ==
    rule = "element_dynamic_delegate" \/ rule = "element_dyn_multicast_delegate"

parse_element_delegate_child(result, pair) ==
    IF pair.rule = "udelegate"
    THEN [result EXCEPT !.specifiers = Some(parse_specifiers(pair))]
    ELSE IF pair.rule = "delegate_name" THEN [result EXCEPT !.name = pair.text]
    ELSE IF pair.rule \in {"delegate_arguments", "dynamic_delegate_arguments"}
    THEN parse_delegate_args(pair, result)
    ELSE result

RECURSIVE parse_element_delegate_loop(_, _)
parse_element_delegate_loop(acc, pairs) ==
    IF pairs = <<>> THEN acc
    ELSE parse_element_delegate_loop(parse_element_delegate_child(acc, Head(pairs)), Tail(pairs))

parse_element_delegate(pair, doc_comments, filename) ==
    parse_element_delegate_loop([DelegateDefault EXCEPT !.doc_comments = doc_comments, !.filename = filename, !.fileline = pair.line, !.multicast = delegate_multicast(pair.rule), !.dynamic = delegate_dynamic(pair.rule), !.exp = pair.exp], pair.kids)

----------------------------------------------------------------------------
(* Functions *)
parse_function_argument_child(result, pair) ==
    IF pair.rule = "doc_comment_lines"
    THEN [result EXCEPT !.doc_comments = Some(parse_doc_comments(pair))]
    ELSE IF pair.rule = "value_type"
    THEN [result EXCEPT !.value_type = parse_value_type(pair)]
    ELSE IF pair.rule = "identifier"
    THEN [result EXCEPT !.name = Some(parse_identifier(pair))]
    ELSE IF pair.rule = "default_value"
    THEN [result EXCEPT !.default_value = Some(parse_default_value(pair))]
    ELSE result

RECURSIVE parse_function_argument_loop(_, _)
parse_function_argument_loop(acc, pairs) ==
    IF pairs = <<>> THEN acc
    ELSE parse_function_argument_loop(parse_function_argument_child(acc, Head(pairs)), Tail(pairs))

parse_function_argument(pair) ==
    parse_function_argument_loop(ArgumentDefault, pair.kids)

parse_function_arguments_child(result, pair) ==
    IF pair.rule = "function_argument"
    THEN [result EXCEPT !.arguments = Append(@, parse_function_argument(pair))]
    ELSE result

RECURSIVE parse_function_arguments_loop(_, _)
parse_function_arguments_loop(acc, pairs) ==
    IF pairs = <<>> THEN acc
    ELSE parse_function_arguments_loop(parse_function_arguments_child(acc, Head(pairs)), Tail(pairs))

parse_function_arguments(pair, result) ==
    parse_function_arguments_loop(result, pair.kids)

parse_function_signature_child(result, pair) ==
    IF pair.rule = "template_declaration"
    THEN [result EXCEPT !.template = Some(parse_template_declaration(pair))]
    ELSE IF pair.rule = "virtualness" THEN [result EXCEPT !.is_virtual = TRUE]
    ELSE IF pair.rule = "value_type"
    THEN [result EXCEPT !.return_type = Some(parse_value_type(pair))]
    ELSE IF pair.rule \in {"operator", "identifier"}
    THEN [result EXCEPT !.name = parse_identifier(pair)]
    ELSE IF pair.rule = "function_arguments"
    THEN parse_function_arguments(pair, result)
    ELSE IF pair.rule = "constness" THEN [result EXCEPT !.is_const_this = TRUE]
    ELSE IF pair.rule = "overrideness" THEN [result EXCEPT !.is_override = TRUE]
    ELSE IF pair.rule = "staticness" THEN [result EXCEPT !.is_static = TRUE]
    ELSE result

RECURSIVE parse_function_signature_loop(_, _)
parse_function_signature_loop(acc, pairs) ==
    IF pairs = <<>> THEN acc
    ELSE parse_function_signature_loop(parse_function_signature_child(acc, Head(pairs)), Tail(pairs))

parse_function_signature(pair, result) ==
    parse_function_signature_loop(result, pair.kids)

(* a variant under which a snippet of a function body is registered only    *)
(* when its identifier is not yet in the mapping                            *)
parse_function_body_child_if_absent(w, pair) ==
    IF pair.rule = "snippet"
    THEN IF contains_key(w.doc.snippets, parse_identifier(Filter(pair.kids, {"identifier"})[1]))
         THEN w ELSE parse_snippet(pair, w)
    ELSE w

parse_function_body_child(w, pair) ==
    IF pair.rule = "snippet" THEN parse_snippet(pair, w) ELSE w

RECURSIVE parse_function_body_loop(_, _)
parse_function_body_loop(acc, pairs) ==
    IF pairs = <<>> THEN acc
    ELSE parse_function_body_loop(parse_function_body_child(acc, Head(pairs)), Tail(pairs))

parse_function_body(pair, w) ==
    parse_function_body_loop(w, pair.kids)

(* a variant that reads the body of a function only when the export         *)
(* predicate accepts the function                                           *)
parse_element_function_child_exported(acc, pair) ==
    IF acc.w.panic THEN acc
    ELSE IF pair.rule = "ufunction"
    THEN [acc EXCEPT !.el.specifiers = Some(parse_specifiers(pair))]
    ELSE IF pair.rule \in {"function_signature", "constructor_signature"}
    THEN [acc EXCEPT !.el = parse_function_signature(pair, @)]
    ELSE IF pair.rule = "function_body" /\ can_export(acc.el)
    THEN [acc EXCEPT !.w = parse_function_body(pair, @)]
    ELSE acc

(* acc: [el: the Function so far, w: the world] *)
parse_element_function_child(acc, pair) ==
    IF acc.w.panic THEN acc
    ELSE IF pair.rule = "ufunction"
    THEN [acc EXCEPT !.el.specifiers = Some(parse_specifiers(pair))]
    ELSE IF pair.rule \in {"function_signature", "constructor_signature"}
    THEN [acc EXCEPT !.el = parse_function_signature(pair, @)]
    ELSE IF pair.rule = "function_body"
    THEN [acc EXCEPT !.w = parse_function_body(pair, @)]
    ELSE acc

RECURSIVE parse_element_function_loop(_, _)
parse_element_function_loop(acc, pairs) ==
    IF pairs = <<>> THEN acc
    ELSE parse_element_function_loop(parse_element_function_child(acc, Head(pairs)), Tail(pairs))

parse_element_function(pair, doc_comments, visibility, w, filename) ==
    parse_element_function_loop([el |-> [FunctionDefault EXCEPT !.doc_comments = doc_comments, !.visibility = visibility, !.filename = filename, !.fileline = pair.line, !.exp = pair.exp], w |-> w], pair.kids)

----------------------------------------------------------------------------
(* Elements.  Element is the tagged result of parse_element. *)
Element(tag, item) == [tag |-> tag, item |-> item]
ElementNone == Element("None", <<>>)

RECURSIVE parse_element(_, _, _, _)

(* one (visibility, base type) per child; the grammar gives each child a    *)
(* visibility that is private, protected or public, then a value_type       *)
parse_inheritances(pair) ==
    [i \in 1..Len(pair.kids) |->
        <<parse_visibility(pair.kids[i].kids[1])[1],
          parse_value_type(pair.kids[i].kids[2])>>]

parse_struct_class_signature_child(result, pair) ==
    IF pair.rule = "template_declaration"
    THEN [result EXCEPT !.template = Some(parse_template_declaration(pair))]
    ELSE IF pair.rule = "api" THEN [result EXCEPT !.api = Some(parse_identifier(pair))]
    ELSE IF pair.rule = "identifier"
    THEN [result EXCEPT !.name = parse_identifier(pair)]
    ELSE IF pair.rule = "inheritances"
    THEN [result EXCEPT !.inherits = parse_inheritances(pair)]
    ELSE result

RECURSIVE parse_struct_class_signature_loop(_, _)
parse_struct_class_signature_loop(acc, pairs) ==
    IF pairs = <<>> THEN acc
    ELSE parse_struct_class_signature_loop(parse_struct_class_signature_child(acc, Head(pairs)), Tail(pairs))

parse_struct_class_signature(pair, result) ==
    parse_struct_class_signature_loop(result, pair.kids)

body_property_ungated(result, element) ==
    [result EXCEPT !.properties = Append(@, element)]

(* a Property element in a body *)
body_property(result, element) ==
    IF can_export(element)
    THEN [result EXCEPT !.properties = Append(@, element)]
    ELSE result

body_function_by_name(result, element) ==
    IF can_export(element)
    THEN IF element.name = result.name
         THEN [result EXCEPT !.constructors = Append(@, element)]
         ELSE [result EXCEPT !.methods = Append(@, element)]
    ELSE result

(* a Function element in a body *)
body_function(result, element) ==
    IF can_export(element)
    THEN IF element.return_type = None
         THEN [result EXCEPT !.constructors = Append(@, element)]
         ELSE [result EXCEPT !.methods = Append(@, element)]
    ELSE result

body_visibility_kept(visibility, v) == visibility

(* a variant under which a label that is no visibility resets to Public *)
body_visibility_reset(visibility, v) == IF IsSome(v) THEN v[1] ELSE "Public"

body_visibility(visibility, v) == IF IsSome(v) THEN v[1] ELSE visibility

(* a variant under which a nested struct or class leaves its own mode       *)
(* default as the enclosing body's visibility                               *)
body_element_nested_default(acc, r) ==
    IF r.w.panic THEN [acc EXCEPT !.w = r.w]
    ELSE IF r.el.tag = "Property"
    THEN [acc EXCEPT !.el = body_property(@, r.el.item), !.w = r.w]
    ELSE IF r.el.tag = "Function"
    THEN [acc EXCEPT !.el = body_function(@, r.el.item), !.w = r.w]
    ELSE IF r.el.tag = "StructClass"
    THEN [acc EXCEPT !.visibility = default_visibility(r.el.item.mode), !.w = r.w]
    ELSE [acc EXCEPT !.w = r.w]

(* acc: [el: the StructClass so far, visibility, w: the world] *)
(* the match on the element a body child parsed to; r: [el, w] *)
body_element(acc, r) ==
    IF r.w.panic THEN [acc EXCEPT !.w = r.w]
    ELSE IF r.el.tag = "Property"
    THEN [acc EXCEPT !.el = body_property(@, r.el.item), !.w = r.w]
    ELSE IF r.el.tag = "Function"
    THEN [acc EXCEPT !.el = body_function(@, r.el.item), !.w = r.w]
    ELSE [acc EXCEPT !.w = r.w]

parse_struct_class_body_child(acc, pair, filename) ==
    IF acc.w.panic THEN acc
    ELSE IF pair.rule = "visibility"
    THEN [acc EXCEPT !.visibility = body_visibility(@, parse_visibility(pair))]
    ELSE IF pair.rule = "inject"
    THEN [acc EXCEPT !.el.injects =
              @ \cup {parse_identifier(pair.kids[i]) : i \in 1..Len(pair.kids)}]
    ELSE IF pair.rule = "element"
    THEN body_element(acc, parse_element(pair, acc.visibility, acc.w, filename))
    ELSE acc

RECURSIVE parse_struct_class_body_loop(_, _, _)
parse_struct_class_body_loop(acc, pairs, filename) ==
    IF pairs = <<>> THEN acc
    ELSE parse_struct_class_body_loop(parse_struct_class_body_child(acc, Head(pairs), filename), Tail(pairs), filename)

parse_struct_class_body(pair, result, visibility, w, filename) ==
    parse_struct_class_body_loop([el |-> result, visibility |-> visibility, w |-> w], pair.kids, filename)

(* acc: [el: the StructClass so far, w: the world] *)
body_result(acc) == [el |-> acc.el, w |-> acc.w]

parse_element_struct_class_child(acc, pair, filename) ==
    IF acc.w.panic THEN acc
    ELSE IF pair.rule \in {"ustruct", "uclass"}
    THEN [acc EXCEPT !.el.specifiers = Some(parse_specifiers(pair))]
    ELSE IF pair.rule \in {"struct_signature", "class_signature"}
    THEN [acc EXCEPT !.el = parse_struct_class_signature(pair, @)]
    ELSE IF pair.rule = "struct_class_body"
    THEN body_result(parse_struct_class_body(
                         pair, acc.el, default_visibility(acc.el.mode), acc.w, filename))
    ELSE acc

RECURSIVE parse_element_struct_class_loop(_, _, _)
parse_element_struct_class_loop(acc, pairs, filename) ==
    IF pairs = <<>> THEN acc
    ELSE parse_element_struct_class_loop(parse_element_struct_class_child(acc, Head(pairs), filename), Tail(pairs), filename)

parse_element_struct_class(pair, doc_comments, mode, w, filename) ==
    parse_element_struct_class_loop([el |-> [StructClassDefault EXCEPT !.mode = mode, !.doc_comments = doc_comments, !.filename = filename, !.fileline = pair.line, !.exp = pair.exp], w |-> w], pair.kids, filename)

DelegateRules ==
    {"element_delegate", "element_multicast_delegate",
     "element_dynamic_delegate", "element_dyn_multicast_delegate"}

(* acc: [result: the Element, doc_comments, w: the world] *)
(* r: [el, w] as a sub-parser that may change the Document returns them *)
element_result(acc, tag, r) ==
    [acc EXCEPT !.result = Element(tag, r.el), !.w = r.w]

parse_element_child(acc, pair, visibility, filename) ==
    IF acc.w.panic THEN acc
    ELSE IF pair.rule = "doc_comment_lines"
    THEN [acc EXCEPT !.doc_comments = Some(parse_doc_comments(pair))]
    ELSE IF pair.rule = "element_enum"
    THEN [acc EXCEPT !.result =
              Element("Enum", parse_element_enum(pair, acc.doc_comments, filename))]
    ELSE IF pair.rule = "element_struct"
    THEN element_result(acc, "StructClass",
             parse_element_struct_class(pair, acc.doc_comments, "Struct", acc.w, filename))
    ELSE IF pair.rule = "element_class"
    THEN element_result(acc, "StructClass",
             parse_element_struct_class(pair, acc.doc_comments, "Class", acc.w, filename))
    ELSE IF pair.rule = "element_property"
    THEN [acc EXCEPT !.result =
              Element("Property",
                      parse_element_property(pair, acc.doc_comments, visibility))]
    ELSE IF pair.rule = "element_function"
    THEN element_result(acc, "Function",
             parse_element_function(pair, acc.doc_comments, visibility, acc.w, filename))
    ELSE IF pair.rule \in DelegateRules
    THEN [acc EXCEPT !.result =
              Element("Delegate",
                      parse_element_delegate(pair, acc.doc_comments, filename))]
    ELSE acc

RECURSIVE parse_element_loop(_, _, _, _)
parse_element_loop(acc, pairs, visibility, filename) ==
    IF pairs = <<>> THEN acc
    ELSE parse_element_loop(parse_element_child(acc, Head(pairs), visibility, filename),
                            Tail(pairs), visibility, filename)

element_returned(acc) == [el |-> acc.result, w |-> acc.w]

(* returns [el: the Element, w: the world] *)
parse_element(pair, visibility, w, filename) ==
    element_returned(
        parse_element_loop([result |-> ElementNone, doc_comments |-> None, w |-> w],
                           pair.kids, visibility, filename))

----------------------------------------------------------------------------
(* The grammar (ast/unreal_cpp_header.pest) is an oracle.  A whole-file     *)
(* content is given by what Rule::file yields for it: a file node, or a     *)
(* node of rule "error" when the grammar does not match.  A proxy's         *)
(* forwarded text is matched against Rule::element by a table of sources.   *)
GrammarFile(content) == IF content.rule = "file" THEN Some(content) ELSE None

Ident(t) == Node("identifier", t, <<>>)
ValueType(t) == Node("value_type", t, <<>>)
DocLines(t) == Node("doc_comment_lines", t, <<>>)
ElementOf(docs, decl) == Node("element", <<>>, docs \o <<decl>>)

T_void == <<"v", "o", "i", "d">>
T_int32 == <<"i", "n", "t", "3", "2">>
T_private == <<"p", "r", "i", "v", "a", "t", "e">>
T_protected == <<"p", "r", "o", "t", "e", "c", "t", "e", "d">>
T_public == <<"p", "u", "b", "l", "i", "c">>
T_doc(c) == <<"/", "/", "/", " ", c>>

EnumDecl(name, exp) ==
    NodeX("element_enum", <<>>,
          <<Node("enum_signature", <<>>, <<Ident(name)>>),
            Node("enum_body", <<>>, <<Ident(<<"V">>)>>)>>, exp)

PropertyDecl(name, exp) ==
    NodeX("element_property", <<>>,
          <<Node("property_signature", <<>>,
                 <<ValueType(T_int32 \o <<" ">>), Ident(name)>>)>>, exp)

(* ret: Option of the return-type text; body: the function body's children *)
FunctionDecl(name, ret, body, exp) ==
    NodeX("element_function", <<>>,
          <<Node(IF ret = None THEN "constructor_signature" ELSE "function_signature",
                 <<>>,
                 [i \in 1..Len(ret) |-> ValueType(ret[i])]
                     \o <<Ident(name), Node("function_arguments", <<>>, <<>>)>>)>>
          \o (IF body = None THEN <<>>
              ELSE <<Node("function_body", <<>>, body[1])>>),
          exp)

SnippetDecl(id, text) ==
    Node("snippet", <<>>, <<Ident(id), Node("snippet_inner", text, <<>>)>>)

StructClassDecl(mode, name, body, exp) ==
    NodeX(IF mode = "Struct" THEN "element_struct" ELSE "element_class", <<>>,
          <<Node(IF mode = "Struct" THEN "struct_signature" ELSE "class_signature",
                 <<>>, <<Ident(name)>>),
            Node("struct_class_body", <<>>, body)>>, exp)

(* ret: Option of a return-type text; args: the children of each argument   *)
DelegateDecl(rule, ret, name, args, exp) ==
    NodeX(rule, <<>>,
          [i \in 1..Len(ret) |-> ValueType(ret[i])]
          \o
          <<Node("delegate_name", name, <<>>),
            Node(IF delegate_dynamic(rule) THEN "dynamic_delegate_arguments"
                 ELSE "delegate_arguments", <<>>,
                 [i \in 1..Len(args) |->
                     Node(IF delegate_dynamic(rule) THEN "dynamic_delegate_argument"
                          ELSE "delegate_argument", <<>>, args[i])])>>, exp)

(* line_col().0: the children of a file sit on consecutive lines, each with *)
(* all it contains on its own line                                          *)
RECURSIVE SetLine(_, _)
SetLine(node, l) ==
    [node EXCEPT !.line = l,
                 !.kids = [j \in 1..Len(node.kids) |-> SetLine(node.kids[j], l)]]

FileOf(kids) ==
    Node("file", <<>>, [i \in 1..Len(kids) |-> SetLine(kids[i], i)])

Malformed == Node("error", <<>>, <<>>)

(* Rule::element on a proxy's forwarded text: a function that the export    *)
(* predicate rejects, a function with doc comments of its own, a property,  *)
(* an enum, and a function whose body holds a snippet                       *)
ElementSources ==
    {<<<<"f", ";">>, ElementOf(<<>>, FunctionDecl(<<"F">>, Some(T_void), None, FALSE))>>,
     <<<<"/", "/", "/", "d", NL, "f", ";">>,
       ElementOf(<<DocLines(<<"/", "/", "/", "d">>)>>,
                 FunctionDecl(<<"F">>, Some(T_void), None, TRUE))>>,
     <<<<"p", ";">>, ElementOf(<<>>, PropertyDecl(<<"P">>, TRUE))>>,
     <<<<"e", ";">>, ElementOf(<<>>, EnumDecl(<<"E">>, TRUE))>>,
     <<<<"g", "{", "}">>,
       ElementOf(<<>>, FunctionDecl(<<"G">>, Some(T_void),
                                    Some(<<SnippetDecl(<<"s">>, <<"y">>)>>), TRUE))>>}

GrammarElement(content) ==
    IF content \in {s[1] : s \in ElementSources}
    THEN Some((CHOOSE s \in ElementSources : s[1] = content)[2])
    ELSE None

----------------------------------------------------------------------------
(* returns [el: the Element, w: the world]; a text Rule::element does not   *)
(* match panics (pair is None)                                              *)
element_of_pair(pair, w, filename) ==
    IF pair = None THEN [el |-> ElementNone, w |-> [w EXCEPT !.panic = TRUE]]
    ELSE parse_element(pair[1], "Public", w, filename)

parse_unreal_cpp_element(content, w, filename) ==
    element_of_pair(GrammarElement(content), w, filename)

(* acc: [doc_comments, tags, content] *)
parse_proxy_child(acc, pair) ==
    IF pair.rule = "doc_comment_lines"
    THEN [acc EXCEPT !.doc_comments = Some(parse_doc_comments(pair))]
    ELSE IF pair.rule = "proxy_tags"
    THEN [acc EXCEPT !.tags =
              @ \cup {parse_identifier(pair.kids[i]) : i \in 1..Len(pair.kids)}]
    ELSE IF pair.rule = "proxy_line_content"
    THEN [acc EXCEPT !.content = @ \o pair.text]
    ELSE acc

Proxy(tags, item) == [tags |-> tags, item |-> item]

(* variants of the match: one that does not ask for doc comments, one that  *)
(* leaves the forwarded item's doc comments in place                        *)
proxy_push_undocumented(doc, el, doc_comments, tags) ==
    IF el.tag = "Function"
    THEN [doc EXCEPT !.proxy_functions =
              Append(@, Proxy(tags, [el.item EXCEPT !.doc_comments = doc_comments]))]
    ELSE IF el.tag = "Property"
    THEN [doc EXCEPT !.proxy_properties =
              Append(@, Proxy(tags, [el.item EXCEPT !.doc_comments = doc_comments]))]
    ELSE doc

proxy_push_forwarded_docs(doc, el, doc_comments, tags) ==
    IF el.tag = "Function" /\ IsSome(doc_comments)
    THEN [doc EXCEPT !.proxy_functions = Append(@, Proxy(tags, el.item))]
    ELSE IF el.tag = "Property" /\ IsSome(doc_comments)
    THEN [doc EXCEPT !.proxy_properties = Append(@, Proxy(tags, el.item))]
    ELSE doc

(* a variant that asks the export predicate before appending *)
proxy_push_exported(doc, el, doc_comments, tags) ==
    IF el.tag = "Function" /\ IsSome(doc_comments) /\ can_export(el.item)
    THEN [doc EXCEPT !.proxy_functions =
              Append(@, Proxy(tags, [el.item EXCEPT !.doc_comments = doc_comments]))]
    ELSE IF el.tag = "Property" /\ IsSome(doc_comments) /\ can_export(el.item)
    THEN [doc EXCEPT !.proxy_properties =
              Append(@, Proxy(tags, [el.item EXCEPT !.doc_comments = doc_comments]))]
    ELSE doc

(* the match on the forwarded element *)
proxy_push(doc, el, doc_comments, tags) ==
    IF el.tag = "Function" /\ IsSome(doc_comments)
    THEN [doc EXCEPT !.proxy_functions =
              Append(@, Proxy(tags, [el.item EXCEPT !.doc_comments = doc_comments]))]
    ELSE IF el.tag = "Property" /\ IsSome(doc_comments)
    THEN [doc EXCEPT !.proxy_properties =
              Append(@, Proxy(tags, [el.item EXCEPT !.doc_comments = doc_comments]))]
    ELSE doc

(* r: what parse_unreal_cpp_element returned *)
proxy_element(r, doc_comments, tags) ==
    IF r.w.panic THEN r.w
    ELSE [r.w EXCEPT !.doc = proxy_push(@, r.el, doc_comments, tags)]

(* p: [doc_comments, tags, content] as the loop left them *)
proxy_forward(p, w, filename) ==
    proxy_element(parse_unreal_cpp_element(p.content, w, filename),
                  p.doc_comments, p.tags)

RECURSIVE parse_proxy_loop(_, _)
parse_proxy_loop(acc, pairs) ==
    IF pairs = <<>> THEN acc
    ELSE parse_proxy_loop(parse_proxy_child(acc, Head(pairs)), Tail(pairs))

parse_proxy(pair, w, filename) ==
    proxy_forward(parse_proxy_loop(
                      [doc_comments |-> None, tags |-> {}, content |-> <<>>], pair.kids),
                  w, filename)

(* a variant that puts the new entry at the front of its collection *)
file_push_front(w, field, kind, element) ==
    IF can_export(element)
    THEN World([w.doc EXCEPT ![field] = <<element>> \o @],
               IF \E i \in 1..Len(w.doc[field]) : w.doc[field][i].name = element.name
               THEN Append(w.out, <<kind, element.name>>) ELSE w.out,
               w.panic)
    ELSE w

(* an exported element is pushed on its collection; a name already there    *)
(* prints "Overwriting existing <kind>: <name>"                             *)
file_push(w, field, kind, element) ==
    IF can_export(element)
    THEN World([w.doc EXCEPT ![field] = Append(@, element)],
               IF \E i \in 1..Len(w.doc[field]) : w.doc[field][i].name = element.name
               THEN Append(w.out, <<kind, element.name>>) ELSE w.out,
               w.panic)
    ELSE w

(* a variant that keeps a property met at file level among the functions *)
file_element_property_kept(w, el) ==
    IF el.tag = "Enum" THEN file_push(w, "enums", "enum", el.item)
    ELSE IF el.tag = "StructClass"
    THEN IF el.item.mode = "Struct"
         THEN file_push(w, "structs", "struct", el.item)
         ELSE file_push(w, "classes", "class", el.item)
    ELSE IF el.tag = "Delegate" THEN file_push(w, "delegates", "delegate", el.item)
    ELSE IF el.tag \in {"Function", "Property"}
    THEN file_push(w, "functions", "function", el.item)
    ELSE w

file_element(w, el) ==
    IF el.tag = "Enum" THEN file_push(w, "enums", "enum", el.item)
    ELSE IF el.tag = "StructClass"
    THEN IF el.item.mode = "Struct"
         THEN file_push(w, "structs", "struct", el.item)
         ELSE file_push(w, "classes", "class", el.item)
    ELSE IF el.tag = "Delegate" THEN file_push(w, "delegates", "delegate", el.item)
    ELSE IF el.tag = "Function" THEN file_push(w, "functions", "function", el.item)
    ELSE w

file_element_of(r) == IF r.w.panic THEN r.w ELSE file_element(r.w, r.el)

parse_file_child(w, pair, filename) ==
    IF w.panic THEN w
    ELSE IF pair.rule = "proxy" THEN parse_proxy(pair, w, filename)
    ELSE IF pair.rule = "snippet" THEN parse_snippet(pair, w)
    ELSE IF pair.rule = "element"
    THEN file_element_of(parse_element(pair, "Public", w, filename))
    ELSE w

RECURSIVE parse_file_loop(_, _, _)
parse_file_loop(acc, pairs, filename) ==
    IF pairs = <<>> THEN acc
    ELSE parse_file_loop(parse_file_child(acc, Head(pairs), filename), Tail(pairs), filename)

parse_file(pair, w, filename) ==
    parse_file_loop(w, pair.kids, filename)

(* Path::file_name: the last component *)
file_name(path) == Last(path)

----------------------------------------------------------------------------
Init ==
    /\ document = DocumentDefault
    /\ returned = "none"
    /\ log = <<>>
    /\ input = [content |-> Malformed, path |-> <<>>]
    /\ before = DocumentDefault
    /\ processed = {}
    /\ input_files = {}
    /\ output_files = {}
    /\ index = <<>>
    /\ stack = <<>>
    /\ calls = <<>>

(* One call of parse_unreal_cpp_header(content, document, settings, path).  *)
(* returned is Ok, Err (the grammar does not match) or Panic; log holds     *)
(* what the call printed; input and before record the call's arguments.     *)
(* Each path of a run is parsed once; nothing runs after a panic.           *)
(* what a call leaves: the Document, what it returns and what it printed *)
Outcome(doc, ret, out) == [doc |-> doc, ret |-> ret, out |-> out]

walked(w) == Outcome(w.doc, IF w.panic THEN "Panic" ELSE "Ok", w.out)

(* a variant that hands back an empty Document when the grammar fails *)
header_outcome_reset(pair, doc, filename) ==
    IF pair = None THEN Outcome(DocumentDefault, "Err", <<>>)
    ELSE walked(parse_file(pair[1], World(doc, <<>>, FALSE), filename))

header_outcome(pair, doc, filename) ==
    IF pair = None THEN Outcome(doc, "Err", <<>>)
    ELSE walked(parse_file(pair[1], World(doc, <<>>, FALSE), filename))

Returns(o) ==
    /\ document' = o.doc
    /\ returned' = o.ret
    /\ log' = o.out

parse_unreal_cpp_header(content, path) ==
    /\ returned # "Panic"
    /\ path \notin processed
    /\ Returns(header_outcome(GrammarFile(content), document, file_name(path)))
    /\ input' = [content |-> content, path |-> path]
    /\ before' = document
    /\ processed' = processed \cup {path}
    /\ UNCHANGED book_vars

----------------------------------------------------------------------------
(* Entities at file level, over two files *)
MaxTop == 1

Paths == {<<"Source", "A.h">>, <<"Source", "B.h">>}

Members ==
    <<ElementOf(<<>>, PropertyDecl(<<"P">>, TRUE)),
      ElementOf(<<>>, PropertyDecl(<<"Q">>, FALSE)),
      ElementOf(<<>>, FunctionDecl(<<"M">>, Some(T_void), None, TRUE)),
      ElementOf(<<>>, FunctionDecl(<<"N">>, Some(T_void), None, FALSE)),
      ElementOf(<<>>, FunctionDecl(<<"A">>, None, None, TRUE)),
      ElementOf(<<>>, FunctionDecl(<<"A">>, None, None, FALSE))>>

TopChildren ==
    {ElementOf(<<>>, EnumDecl(<<"A">>, e)) : e \in BOOLEAN}
    \cup {ElementOf(<<>>, StructClassDecl(m, <<"A">>, Members, e)) :
              m \in {"Struct", "Class"}, e \in BOOLEAN}
    \cup {ElementOf(<<>>, FunctionDecl(<<"A">>, Some(T_void), None, e)) : e \in BOOLEAN}
    \cup {ElementOf(<<>>, DelegateDecl("element_delegate", None, <<"A">>, <<>>, e)) :
              e \in BOOLEAN}
    \cup {ElementOf(<<>>, PropertyDecl(<<"A">>, TRUE))}

EntityContents ==
    {FileOf(kids) : kids \in SeqsUpTo(TopChildren, MaxTop)} \cup {Malformed}

Next == \E content \in EntityContents, path \in Paths :
            parse_unreal_cpp_header(content, path)

Spec == Init /\ [][Next]_vars

----------------------------------------------------------------------------
(* One struct or class in one file, with every body of up to MaxBody        *)
(* labels and members                                                       *)
MaxBody == 3

T_published == <<"p", "u", "b", "l", "i", "s", "h", "e", "d">>

Label(t) == Node("visibility", t, <<>>)

BodyChildren ==
    {Label(t) : t \in {T_private, T_protected, T_public, T_published}}
    \cup {ElementOf(<<>>, PropertyDecl(<<"P">>, TRUE)),
          ElementOf(<<>>, FunctionDecl(<<"S">>, Some(T_void), None, TRUE)),
          ElementOf(<<>>, FunctionDecl(<<"S">>, None, None, TRUE)),
          ElementOf(<<>>, FunctionDecl(<<"G">>, None, None, TRUE)),
          ElementOf(<<>>, FunctionDecl(<<"G">>, None, None, FALSE))}

BodyContents ==
    {FileOf(<<ElementOf(<<>>, StructClassDecl(m, <<"S">>, body, TRUE))>>) :
         m \in {"Struct", "Class"}, body \in SeqsUpTo(BodyChildren, MaxBody)}

OnePath == {<<"Source", "Test.h">>}

NextBody == \E content \in BodyContents, path \in OnePath :
                parse_unreal_cpp_header(content, path)

SpecBody == Init /\ [][NextBody]_vars

----------------------------------------------------------------------------
(* One delegate in one file: each of the four rules, with or without a      *)
(* return type, with up to MaxArgs arguments                                *)
MaxArgs == 2

T_Value == <<"V", "a", "l", "u", "e">>
T_bool == <<"b", "o", "o", "l">>

ArgName(t) == Node("delegate_argument_name", t, <<>>)

ArgShapes ==
    {<<ValueType(T_int32), Ident(T_Value)>>,
     <<ValueType(<<" ">> \o T_int32), ArgName(T_Value)>>,
     <<ValueType(T_bool)>>,
     <<ValueType(T_bool \o <<" ">>), Ident(<<"I">>), ArgName(<<"N">>)>>}

DelegateContents ==
    {FileOf(<<ElementOf(<<>>, DelegateDecl(r, ret, <<"D">>, args, TRUE))>>) :
         r \in DelegateRules, ret \in {None, Some(T_void), Some(T_bool \o <<" ">>)},
         args \in SeqsUpTo(ArgShapes, MaxArgs)}

NextDelegate == \E content \in DelegateContents, path \in OnePath :
                    parse_unreal_cpp_header(content, path)

SpecDelegate == Init /\ [][NextDelegate]_vars

----------------------------------------------------------------------------
(* Proxies in one file: up to MaxFile top-level children, each a proxy      *)
(* (with or without a doc-comment block, with or without tags, forwarding   *)
(* one of the texts of ElementSources), an enum or a snippet                *)
MaxFile == 2

(* content: the forwarded text, one proxy_line_content per line *)
ProxyDecl(docs, tags, content) ==
    Node("proxy", <<>>,
         docs
         \o (IF tags = <<>> THEN <<>>
             ELSE <<Node("proxy_tags", <<>>, [i \in 1..Len(tags) |-> Ident(tags[i])])>>)
         \o [i \in 1..Len(content) |-> Node("proxy_line_content", content[i], <<>>)])

ForwardedLines ==
    {<<<<"f", ";">>>>,
     <<<<"/", "/", "/", "d", NL>>, <<"f", ";">>>>,
     <<<<"p", ";">>>>,
     <<<<"e", ";">>>>,
     <<<<"g", "{">>, <<"}">>>>}

ProxyChildren ==
    {ProxyDecl(docs, tags, content) :
         docs \in {<<>>, <<DocLines(T_doc("x"))>>},
         tags \in {<<>>, <<<<"a">>, <<"b">>, <<"a">>>>},
         content \in ForwardedLines}
    \cup {ElementOf(<<>>, EnumDecl(<<"E">>, TRUE)),
          SnippetDecl(<<"s">>, <<"z">>)}

ProxyContents == {FileOf(kids) : kids \in SeqsUpTo(ProxyChildren, MaxFile)}

NextProxy == \E content \in ProxyContents, path \in OnePath :
                 parse_unreal_cpp_header(content, path)

SpecProxy == Init /\ [][NextProxy]_vars

----------------------------------------------------------------------------
(* One snippet in one file: every text of up to MaxText characters over a   *)
(* space, a no-break space, a letter and a newline, and the block whose     *)
(* lines are indented by 4, 4, 2 and 6 spaces                               *)
MaxText == 4

SnippetChars == {" ", NBSP, "x", NL}

Indented(n) == [i \in 1..n |-> " "] \o <<"x">>

IndentSample ==
    Indented(4) \o <<NL>> \o Indented(4) \o <<NL>> \o Indented(2) \o <<NL>> \o Indented(6)

SnippetTexts == SeqsUpTo(SnippetChars, MaxText) \cup {IndentSample}

SnippetContents == {FileOf(<<SnippetDecl(<<"s">>, text)>>) : text \in SnippetTexts}

NextSnippet == \E content \in SnippetContents, path \in OnePath :
                   parse_unreal_cpp_header(content, path)

SpecSnippet == Init /\ [][NextSnippet]_vars

----------------------------------------------------------------------------
(* One documented enum in one file: the doc-comment block is every text of  *)
(* up to MaxDoc characters over a slash, a space, a letter and a newline,   *)
(* or one of two longer blocks                                              *)
MaxDoc == 5

DocChars == {"/", " ", "a", NL}

(* a marker line with spaces around its text, a blank line, a line without  *)
(* a marker, and a line with four slashes                                   *)
DocSample ==
    <<" ", "/", "/", "/", " ", "a", " ", NL, NL, "b", NL, "/", "/", "/", "/", "c">>

(* a line with two markers, and a final newline *)
DocSampleTwice == <<"/", "/", "/", "a", " ", "/", "/", "/", "b", NL>>

DocTexts == SeqsUpTo(DocChars, MaxDoc) \cup {DocSample, DocSampleTwice}

DocContents ==
    {FileOf(<<ElementOf(<<DocLines(text)>>, EnumDecl(<<"E">>, TRUE))>>) : text \in DocTexts}

NextDoc == \E content \in DocContents, path \in OnePath :
               parse_unreal_cpp_header(content, path)

SpecDoc == Init /\ [][NextDoc]_vars

----------------------------------------------------------------------------
(* Snippet registrations over two files: up to MaxSnips children per file,  *)
(* each a snippet under one of two identifiers with one of two texts, or a  *)
(* function whose body holds a snippet                                      *)
MaxSnips == 2

SnipChildren ==
    {SnippetDecl(id, text) : id \in {<<"s">>, <<"t">>}, text \in {<<"y">>, <<"z">>}}
    \cup {ElementOf(<<>>, FunctionDecl(<<"G">>, Some(T_void),
                                       Some(<<SnippetDecl(<<"s">>, <<"b">>)>>), TRUE))}

SnipContents == {FileOf(kids) : kids \in SeqsUpTo(SnipChildren, MaxSnips)}

NextSnips == \E content \in SnipContents, path \in Paths :
                 parse_unreal_cpp_header(content, path)

SpecSnips == Init /\ [][NextSnips]_vars

----------------------------------------------------------------------------
(* Two files merged into one Document: each is malformed or has up to       *)
(* MaxMerge children among an enum, an enum the export predicate rejects,   *)
(* a class with members, a function whose body holds a snippet, a           *)
(* documented proxy, a proxy without doc comments, and a proxy whose        *)
(* forwarded text Rule::element does not match                              *)
MaxMerge == 2

MergeChildren ==
    {ElementOf(<<>>, EnumDecl(<<"A">>, TRUE)),
     ElementOf(<<>>, EnumDecl(<<"A">>, FALSE)),
     ElementOf(<<>>, StructClassDecl("Class", <<"A">>, Members, TRUE)),
     ElementOf(<<>>, FunctionDecl(<<"A">>, Some(T_void),
                                  Some(<<SnippetDecl(<<"s">>, <<"y">>)>>), TRUE)),
     ProxyDecl(<<DocLines(T_doc("x"))>>, <<<<"a">>>>, <<<<"f", ";">>>>),
     ProxyDecl(<<>>, <<>>, <<<<"p", ";">>>>),
     ProxyDecl(<<DocLines(T_doc("x"))>>, <<>>, <<<<"?">>>>)}

MergeContents ==
    {FileOf(kids) : kids \in SeqsUpTo(MergeChildren, MaxMerge)} \cup {Malformed}

NextMerge == \E content \in MergeContents, path \in Paths :
                 parse_unreal_cpp_header(content, path)

SpecMerge == Init /\ [][NextMerge]_vars

----------------------------------------------------------------------------
(* Raw-text fields: one struct with one member, a property or a function,   *)
(* in which one node at a time (value type, identifier, array size, default *)
(* value, template declaration) spans each text of up to MaxRaw characters  *)
(* over a space, a lower-case and an upper-case letter that has a letter    *)
MaxRaw == 3

RawTexts == {t \in SeqsUpTo({" ", "x", "X"}, MaxRaw) : \E i \in 1..Len(t) : t[i] # " "}

RawProperty(vt, id, size, dv) ==
    NodeX("element_property", <<>>,
          <<Node("property_signature", <<>>,
                 <<ValueType(vt), Ident(id),
                   Node("property_array", <<>>, <<Node("property_array_size", size, <<>>)>>),
                   Node("default_value", <<>>,
                        <<Node("default_value_inner", dv, <<>>)>>)>>)>>, TRUE)

RawFunction(tpl) ==
    NodeX("element_function", <<>>,
          <<Node("function_signature", <<>>,
                 <<Node("template_declaration", tpl, <<>>), ValueType(T_void),
                   Ident(<<"F">>), Node("function_arguments", <<>>, <<>>)>>)>>, TRUE)

RawMembers ==
    {RawProperty(t, <<"x">>, <<"x">>, <<"x">>) : t \in RawTexts}
    \cup {RawProperty(<<"x">>, t, <<"x">>, <<"x">>) : t \in RawTexts}
    \cup {RawProperty(<<"x">>, <<"x">>, t, <<"x">>) : t \in RawTexts}
    \cup {RawProperty(<<"x">>, <<"x">>, <<"x">>, t) : t \in RawTexts}
    \cup {RawFunction(t) : t \in RawTexts}

RawContents ==
    {FileOf(<<ElementOf(<<>>, StructClassDecl("Struct", <<"S">>,
                                              <<ElementOf(<<>>, m)>>, TRUE))>>) :
         m \in RawMembers}

NextRaw == \E content \in RawContents, path \in OnePath :
               parse_unreal_cpp_header(content, path)

SpecRaw == Init /\ [][NextRaw]_vars

----------------------------------------------------------------------------
(* Order: two files of up to MaxOrder children among two enums, an enum the *)
(* export predicate rejects, and two classes whose bodies hold two          *)
(* properties, two methods and two constructors in different orders with a  *)
(* rejected member between them                                             *)
MaxOrder == 2

OrderBody ==
    <<ElementOf(<<>>, PropertyDecl(<<"P">>, TRUE)),
      ElementOf(<<>>, FunctionDecl(<<"M">>, Some(T_void), None, TRUE)),
      ElementOf(<<>>, FunctionDecl(<<"S">>, None, None, TRUE)),
      ElementOf(<<>>, PropertyDecl(<<"R">>, FALSE)),
      Label(T_public),
      ElementOf(<<>>, PropertyDecl(<<"Q">>, TRUE)),
      ElementOf(<<>>, FunctionDecl(<<"N">>, Some(T_void), None, TRUE)),
      ElementOf(<<>>, FunctionDecl(<<"T">>, None, None, TRUE))>>

Reversed(s) == [i \in 1..Len(s) |-> s[Len(s) + 1 - i]]

OrderChildren ==
    {ElementOf(<<>>, EnumDecl(<<"A">>, TRUE)),
     ElementOf(<<>>, EnumDecl(<<"B">>, TRUE)),
     ElementOf(<<>>, EnumDecl(<<"C">>, FALSE)),
     ElementOf(<<>>, StructClassDecl("Class", <<"S">>, OrderBody, TRUE)),
     ElementOf(<<>>, StructClassDecl("Class", <<"T">>, Reversed(OrderBody), TRUE))}

OrderContents == {FileOf(kids) : kids \in SeqsUpTo(OrderChildren, MaxOrder)}

NextOrder == \E content \in OrderContents, path \in Paths :
                 parse_unreal_cpp_header(content, path)

SpecOrder == Init /\ [][NextOrder]_vars

----------------------------------------------------------------------------
(* Specifiers: one enum, class, function or delegate in one file, with a    *)
(* specifier node that has no child or a list of up to MaxSpec children     *)
(* among singles, pairs and meta groups                                     *)
MaxSpec == 2

SpecSingle(name) == Node("specifier_single", <<>>, <<Ident(name)>>)
SpecPair(key, value) == Node("specifier_pair", <<>>, <<Ident(key), Ident(value)>>)
SpecMeta(items) == Node("specifier_meta", <<>>, items)

SpecItems ==
    {SpecSingle(<<"a">>), SpecSingle(<<"b">>),
     SpecPair(<<"k">>, <<"v">>), SpecPair(<<"v">>, <<"k">>),
     SpecMeta(<<>>),
     SpecMeta(<<SpecSingle(<<"a">>)>>),
     SpecMeta(<<SpecPair(<<"k">>, <<"v">>), SpecSingle(<<"b">>)>>)}

SpecLists ==
    {<<>>} \cup {<<Node("specifiers", <<>>, items)>> : items \in SeqsUpTo(SpecItems, MaxSpec)}

(* decl with a specifier node of rule urule in front of its children *)
WithSpecifiers(decl, urule, list) ==
    [decl EXCEPT !.kids = <<Node(urule, <<>>, list)>> \o @]

SpecifiedDecls(list) ==
    {WithSpecifiers(EnumDecl(<<"E">>, TRUE), "uenum", list),
     WithSpecifiers(StructClassDecl("Class", <<"S">>, <<>>, TRUE), "uclass", list),
     WithSpecifiers(FunctionDecl(<<"F">>, Some(T_void), None, TRUE), "ufunction", list),
     WithSpecifiers(DelegateDecl("element_delegate", None, <<"D">>, <<>>, TRUE),
                    "udelegate", list)}

SpecifierContents ==
    {FileOf(<<ElementOf(<<>>, decl)>>) : decl \in UNION {SpecifiedDecls(l) : l \in SpecLists}}

NextSpecifiers == \E content \in SpecifierContents, path \in OnePath :
                      parse_unreal_cpp_header(content, path)

SpecSpecifiers == Init /\ [][NextSpecifiers]_vars

----------------------------------------------------------------------------
(* One struct or class whose body holds labels, members and nested structs  *)
(* and classes with a label and a member of their own, up to MaxNest        *)
(* children                                                                 *)
MaxNest == 3

NestedBodies ==
    {<<Label(t), ElementOf(<<>>, PropertyDecl(<<"Q">>, TRUE))>> :
         t \in {T_private, T_public}}

NestChildren ==
    {Label(t) : t \in {T_private, T_public}}
    \cup {ElementOf(<<>>, PropertyDecl(<<"P">>, TRUE)),
          ElementOf(<<>>, FunctionDecl(<<"M">>, Some(T_void), None, TRUE))}
    \cup {ElementOf(<<>>, StructClassDecl(m, <<"N">>, body, TRUE)) :
              m \in {"Struct", "Class"}, body \in NestedBodies}

NestContents ==
    {FileOf(<<ElementOf(<<>>, StructClassDecl(m, <<"S">>, body, TRUE))>>) :
         m \in {"Struct", "Class"}, body \in SeqsUpTo(NestChildren, MaxNest)}

NextNest == \E content \in NestContents, path \in OnePath :
                parse_unreal_cpp_header(content, path)

SpecNest == Init /\ [][NextNest]_vars

----------------------------------------------------------------------------
(* Snippets at file level and in function bodies: one file of up to MaxFn   *)
(* children, each a snippet s or a function G (exported or not) whose body  *)
(* is empty, holds one snippet s, a child of another rule before a snippet, *)
(* or the snippet twice.  The texts are plain, indented by one space, and   *)
(* indented by one no-break space.                                          *)
MaxFn == 2

FnTexts == {<<"y">>, <<" ", "z">>, <<NBSP, "y">>}

FnBodies ==
    {<<>>,
     <<Ident(<<"x">>), SnippetDecl(<<"s">>, <<"y">>)>>,
     <<SnippetDecl(<<"s">>, <<"y">>), SnippetDecl(<<"s">>, <<" ", "z">>)>>}
    \cup {<<SnippetDecl(<<"s">>, text)>> : text \in FnTexts}

FnChildren ==
    {SnippetDecl(<<"s">>, text) : text \in FnTexts}
    \cup {ElementOf(<<>>, FunctionDecl(<<"G">>, Some(T_void), Some(body), e)) :
              body \in FnBodies, e \in BOOLEAN}

FnContents == {FileOf(kids) : kids \in SeqsUpTo(FnChildren, MaxFn)}

NextFn == \E content \in FnContents, path \in OnePath :
              parse_unreal_cpp_header(content, path)

SpecFn == Init /\ [][NextFn]_vars

----------------------------------------------------------------------------
(* Snippets in the bodies of functions that are not retained: one file of   *)
(* up to MaxKeep children among a function with the snippet s in its body   *)
(* (exported or rejected), a rejected struct whose rejected method holds    *)
(* the snippet t, a proxy with or without doc comments that forwards a      *)
(* function with the snippet s in its body, a proxy without doc comments    *)
(* that forwards a function without a body, and the snippet s at file level *)
MaxKeep == 3

KeepChildren ==
    {ElementOf(<<>>, FunctionDecl(<<"G">>, Some(T_void),
                                  Some(<<SnippetDecl(<<"s">>, <<"b">>)>>), e)) :
         e \in BOOLEAN}
    \cup {ElementOf(<<>>, StructClassDecl("Struct", <<"S">>,
              <<ElementOf(<<>>, FunctionDecl(<<"M">>, Some(T_void),
                                             Some(<<SnippetDecl(<<"t">>, <<"c">>)>>),
                                             FALSE))>>, FALSE)),
          ProxyDecl(<<>>, <<>>, <<<<"g", "{">>, <<"}">>>>),
          ProxyDecl(<<DocLines(T_doc("x"))>>, <<>>, <<<<"g", "{">>, <<"}">>>>),
          ProxyDecl(<<>>, <<>>, <<<<"f", ";">>>>),
          SnippetDecl(<<"s">>, <<"z">>)}

KeepContents == {FileOf(kids) : kids \in SeqsUpTo(KeepChildren, MaxKeep)}

NextKeep == \E content \in KeepContents, path \in OnePath :
                parse_unreal_cpp_header(content, path)

SpecKeep == Init /\ [][NextKeep]_vars

----------------------------------------------------------------------------
(* Elements that have no destination: one file with a struct or class S,    *)
(* with or without a property before and after it, or with a property       *)
(* alone.  The body of S has up to MaxDrop children among a property, a     *)
(* method, a constructor, and a nested enum, struct, class and delegate.    *)
MaxDrop == 2

DropMembers ==
    {ElementOf(<<>>, PropertyDecl(<<"P">>, TRUE)),
     ElementOf(<<>>, FunctionDecl(<<"M">>, Some(T_void), None, TRUE)),
     ElementOf(<<>>, FunctionDecl(<<"S">>, None, None, TRUE)),
     ElementOf(<<>>, EnumDecl(<<"E">>, TRUE)),
     ElementOf(<<>>, StructClassDecl("Struct", <<"N">>,
                                     <<ElementOf(<<>>, PropertyDecl(<<"Q">>, TRUE))>>, TRUE)),
     ElementOf(<<>>, StructClassDecl("Class", <<"N">>,
                   <<ElementOf(<<>>, FunctionDecl(<<"R">>, Some(T_void), None, TRUE))>>,
                   TRUE)),
     ElementOf(<<>>, DelegateDecl("element_delegate", None, <<"D">>, <<>>, TRUE))}

TopProperty == {<<>>, <<ElementOf(<<>>, PropertyDecl(<<"A">>, TRUE))>>}

DropContents ==
    {FileOf(pre \o <<ElementOf(<<>>, StructClassDecl(m, <<"S">>, body, TRUE))>> \o post) :
         pre \in TopProperty, post \in TopProperty,
         m \in {"Struct", "Class"}, body \in SeqsUpTo(DropMembers, MaxDrop)}
    \cup {FileOf(<<ElementOf(<<>>, PropertyDecl(<<"A">>, TRUE))>>)}

NextDrop == \E content \in DropContents, path \in OnePath :
                parse_unreal_cpp_header(content, path)

SpecDrop == Init /\ [][NextDrop]_vars

----------------------------------------------------------------------------
(* include_book_index (src/backends/mdbook.rs).  Both maps are sets of      *)
(* <<key, text>> pairs, as the snippet mapping is.                          *)
T_index_txt == <<"i", "n", "d", "e", "x", ".", "t", "x", "t">>
T_index_md == <<"i", "n", "d", "e", "x", ".", "m", "d">>
T_md == <<".", "m", "d">>
T_src == <<"s", "r", "c", "/">>
T_pages == <<"#", " ", "P", "a", "g", "e", "s", NL, NL>>

(* a variant that does not close the directory with "/" *)
book_path_bare(dir) == IF dir = None THEN <<>> ELSE dir[1]

(* format!("{}/", v) of dir, or the empty string *)
book_path(dir) == IF dir = None THEN <<>> ELSE dir[1] \o <<"/">>

(* the listing a call starts from: the directory's index.md, if any, then   *)
(* the heading                                                              *)
listing_of(files, path) ==
    (IF contains_key(files, path \o T_index_md)
     THEN get(files, path \o T_index_md) \o <<NL, NL>> ELSE <<>>)
    \o T_pages

(* str::find(':'): the number of characters before the first one *)
find(line, c) ==
    IF \A i \in 1..Len(line) : line[i] # c THEN None
    ELSE Some((CHOOSE i \in 1..Len(line) :
                   line[i] = c /\ \A j \in 1..(i - 1) : line[j] # c) - 1)

(* content.lines() as the loop consumes it: the first line of what remains  *)
(* of a text, and what remains after it                                     *)
line_end(text) == IF find(text, NL) = None THEN Len(text) ELSE find(text, NL)[1]

next_line(text) == SubSeq(text, 1, line_end(text))

after_line(text) == SubSeq(text, line_end(text) + 2, Len(text))

(* (name, title) of a line *)
line_name(line) ==
    IF IsSome(find(line, ":")) THEN trim(SubSeq(line, 1, find(line, ":")[1])) ELSE line

line_title(line) ==
    IF IsSome(find(line, ":"))
    THEN Some(trim(SubSeq(line, find(line, ":")[1] + 2, Len(line))))
    ELSE None

ends_with(s, suffix) ==
    /\ Len(s) >= Len(suffix)
    /\ SubSeq(s, Len(s) - Len(suffix) + 1, Len(s)) = suffix

RECURSIVE repeat(_, _)
repeat(s, n) == IF n = 0 THEN <<>> ELSE s \o repeat(s, n - 1)

RECURSIVE trim_start_matches(_, _)
trim_start_matches(s, c) ==
    IF s # <<>> /\ Head(s) = c THEN trim_start_matches(Tail(s), c) ELSE s

(* content.lines().next().map(|line| line.trim_start_matches('#').trim()) *)
first_line_title(content) ==
    IF content = <<>> THEN None
    ELSE Some(trim(trim_start_matches(next_line(content), "#")))

(* title.or_else(..).unwrap_or(name) *)
page_title(title, content, name) ==
    IF IsSome(title) THEN title[1]
    ELSE IF IsSome(first_line_title(content)) THEN first_line_title(content)[1]
    ELSE name

(* format!("- [{}]({})\n", title, target) *)
link(title, target) ==
    <<"-", " ", "[">> \o title \o <<"]", "(">> \o target \o <<")", NL>>

(* a line that the loop passes over: empty after trim, or a comment *)
skipped(line) == line = <<>> \/ Head(line) = "#"

is_page(name) == ends_with(name, T_md)

(* format!("{}{}", path, name) *)
child_path(path, name) == path \o name

(* the guard of the body: the directory's index.txt is a key of the map *)
call_found(files, dir) == contains_key(files, book_path(dir) \o T_index_txt)

(* a frame: the call's path, what remains of its index.txt, its listing and *)
(* its level                                                                *)
Frame(files, dir, level) ==
    [path |-> book_path(dir),
     rest |-> get(files, book_path(dir) \o T_index_txt),
     listing |-> listing_of(files, book_path(dir)),
     level |-> level]

Call(parent, dir, files) ==
    [parent |-> parent, dir |-> dir, path |-> book_path(dir),
     found |-> call_found(files, dir)]

Top == stack[Len(stack)]

(* the frames with the innermost one replaced *)
with_top(frames, frame) == SubSeq(frames, 1, Len(frames) - 1) \o <<frame>>

(* the recursion is followed up to MaxDepth frames *)
MaxDepth == 5

(* the outermost call *)
include_book_index(dir) ==
    /\ calls = <<>>
    /\ input_files # {}
    /\ calls' = <<Call(None, dir, input_files)>>
    /\ stack' = IF call_found(input_files, dir) THEN <<Frame(input_files, dir, 0)>> ELSE <<>>
    /\ UNCHANGED <<input_files, output_files, index, header_vars>>

(* a line that is empty or a comment *)
line_skipped(frame) ==
    /\ stack' = with_top(stack, [frame EXCEPT !.rest = after_line(@)])
    /\ UNCHANGED <<index, output_files, calls>>

(* a name that ends with .md and is a key of the map: the page is listed    *)
(* and copied                                                               *)
line_page(frame, name, title, content) ==
    /\ index' = index \o repeat(<<" ", " ">>, frame.level)
                      \o link(page_title(title, content, name),
                              child_path(frame.path, name))
    /\ output_files' = insert(output_files, T_src \o child_path(frame.path, name), content)
    /\ stack' = with_top(stack,
                   [frame EXCEPT !.rest = after_line(@),
                                 !.listing = @ \o link(page_title(title, content, name),
                                                       name)])
    /\ UNCHANGED calls

(* a name that ends with .md and is no key of the map: the indentation      *)
(* stays in the index                                                       *)
line_page_missing(frame) ==
    /\ index' = index \o repeat(<<" ", " ">>, frame.level)
    /\ stack' = with_top(stack, [frame EXCEPT !.rest = after_line(@)])
    /\ UNCHANGED <<output_files, calls>>

(* any other name is a directory: it is linked and include_book_index is    *)
(* called on it; the call's frame is entered when its index.txt is a key    *)
line_directory(frame, name, title) ==
    /\ call_found(input_files, Some(child_path(frame.path, name))) => Len(stack) < MaxDepth
    /\ index' = index \o repeat(<<" ", " ">>, frame.level)
                      \o link(IF IsSome(title) THEN title[1] ELSE name,
                              child_path(frame.path, name) \o <<"/">> \o T_index_md)
    /\ calls' = Append(calls, Call(Some(frame.path), Some(child_path(frame.path, name)),
                                   input_files))
    /\ stack' = with_top(stack, [frame EXCEPT !.rest = after_line(@)])
                 \o (IF call_found(input_files, Some(child_path(frame.path, name)))
                     THEN <<Frame(input_files, Some(child_path(frame.path, name)),
                                  frame.level + 1)>>
                     ELSE <<>>)
    /\ UNCHANGED output_files

line_named(frame, name, title) ==
    IF is_page(name)
    THEN IF contains_key(input_files, child_path(frame.path, name))
         THEN \E content \in {get(input_files, child_path(frame.path, name))} :
                  line_page(frame, name, title, content)
         ELSE line_page_missing(frame)
    ELSE line_directory(frame, name, title)

line_of(frame, line) ==
    IF skipped(line) THEN line_skipped(frame)
    ELSE \E name \in {line_name(line)}, title \in {line_title(line)} :
             line_named(frame, name, title)

(* one turn of "for line in content.lines()" in the innermost call *)
book_line ==
    /\ stack # <<>>
    /\ Top.rest # <<>>
    /\ \E frame \in {Top} : \E line \in {trim(next_line(frame.rest))} :
           line_of(frame, line)
    /\ UNCHANGED <<input_files, header_vars>>

(* the end of the loop: the listing is stored and the call returns *)
book_return ==
    /\ stack # <<>>
    /\ Top.rest = <<>>
    /\ output_files' = insert(output_files, T_src \o Top.path \o T_index_md, Top.listing)
    /\ stack' = SubSeq(stack, 1, Len(stack) - 1)
    /\ UNCHANGED <<input_files, index, calls, header_vars>>

----------------------------------------------------------------------------
(* Books: a root index.txt of up to MaxLines lines among a page, a page     *)
(* with a title, a page that is not in the map, a directory, a comment, a   *)
(* blank line and a line with a title and no name, over a fixed set of      *)
(* other files; and a book without a root index.txt                         *)
MaxLines == 2

BookLines ==
    {<<"p", ".", "m", "d">>, <<"p", ".", "m", "d", ":", " ", "T">>, <<"q", ".", "m", "d">>, <<" ", "a", " ">>, <<"#", "c">>, <<" ">>, <<":", "t">>}

IndexTexts == {join(ls) : ls \in SeqsUpTo(BookLines, MaxLines)}

OtherFiles ==
    {<<<<"a", "/", "i", "n", "d", "e", "x", ".", "t", "x", "t">>, <<"a">> \o <<NL>> \o <<"p", ".", "m", "d">>>>,
     <<<<"a", "/", "a", "/", "i", "n", "d", "e", "x", ".", "t", "x", "t">>, <<":", "t">>>>,
     <<<<"/", "i", "n", "d", "e", "x", ".", "t", "x", "t">>, <<":", "t">>>>,
     <<<<"p", ".", "m", "d">>, <<"#", " ", "T", "i", "t", "l", "e">>>>,
     <<<<"a", "/", "p", ".", "m", "d">>, <<>>>>,
     <<<<"i", "n", "d", "e", "x", ".", "m", "d">>, <<"i", "n", "t", "r", "o">>>>}

Books == {OtherFiles \cup {<<T_index_txt, text>>} : text \in IndexTexts} \cup {OtherFiles}

Starts == {None, Some(<<"a">>), Some(<<"a", "/", "a">>), Some(<<"z">>)}

InitBook ==
    /\ document = DocumentDefault
    /\ returned = "none"
    /\ log = <<>>
    /\ input = [content |-> Malformed, path |-> <<>>]
    /\ before = DocumentDefault
    /\ processed = {}
    /\ input_files \in Books
    /\ output_files = {}
    /\ index = <<>>
    /\ stack = <<>>
    /\ calls = <<>>

NextBook ==
    \/ \E dir \in Starts : include_book_index(dir)
    \/ book_line
    \/ book_return

(* a call in progress goes on *)
SpecBook == InitBook /\ [][NextBook]_vars /\ WF_vars(NextBook)

----------------------------------------------------------------------------
(* Reading the declarations off an input file, for the statements below *)
EntityFields == {"enums", "structs", "classes", "functions", "delegates"}

FieldOfRule(rule) ==
    IF rule = "element_enum" THEN "enums"
    ELSE IF rule = "element_struct" THEN "structs"
    ELSE IF rule = "element_class" THEN "classes"
    ELSE IF rule = "element_function" THEN "functions"
    ELSE IF rule \in DelegateRules THEN "delegates"
    ELSE "none"

(* the declaration node of an element: its last child *)
DeclOf(element) == Last(element.kids)

DeclName(decl) ==
    IF decl.rule = "element_enum" THEN decl.kids[1].kids[1].text
    ELSE IF decl.rule \in DelegateRules THEN decl.kids[1].text
    ELSE Kids(decl.kids[1], "identifier")[1].text

(* the declarations of a file's top level that go to collection f and pass  *)
(* the export predicate, in source order                                    *)
RECURSIVE DeclsWhere(_, _, _)
DeclsWhere(kids, fields, exp) ==
    IF kids = <<>> THEN <<>>
    ELSE (IF /\ Head(kids).rule = "element"
             /\ FieldOfRule(DeclOf(Head(kids)).rule) \in fields
             /\ DeclOf(Head(kids)).exp = exp
          THEN <<DeclOf(Head(kids))>> ELSE <<>>)
         \o DeclsWhere(Tail(kids), fields, exp)

ExportedDecls(content, f) == DeclsWhere(content.kids, {f}, TRUE)

RejectedDecls(content) == DeclsWhere(content.kids, EntityFields, FALSE)

NamesOf(entries) == {entries[i].name : i \in 1..Len(entries)}

Called == returned # "none" /\ input.content.rule = "file"

(* C1 (as claimed): a declaration under a name its collection already holds *)
(* overwrites the earlier entry: after the call the collection holds exactly*)
(* one entry of that name, it is the last declaration of that name, the     *)
(* collection grew only by the names that are new, and the call returned Ok *)
C1_RedeclarationOverwrites ==
    Called =>
        /\ returned = "Ok"
        /\ \A f \in EntityFields :
            LET decls == ExportedDecls(input.content, f)
            IN  /\ \A i \in 1..Len(decls) :
                    LET n == DeclName(decls[i])
                        lastd == CHOOSE j \in 1..Len(decls) :
                                    /\ DeclName(decls[j]) = n
                                    /\ \A k \in 1..Len(decls) :
                                          DeclName(decls[k]) = n => k <= j
                        held == {k \in 1..Len(document[f]) : document[f][k].name = n}
                    IN  /\ Cardinality(held) = 1
                        /\ \A k \in held :
                              /\ document[f][k].fileline = decls[lastd].line
                              /\ document[f][k].filename = file_name(input.path)
                /\ Len(document[f]) =
                       Len(before[f])
                       + Cardinality({DeclName(decls[i]) : i \in 1..Len(decls)}
                                     \ NamesOf(before[f]))

(* C2: no entity the export predicate rejected is in the Document, at file  *)
(* level or inside a retained struct or class, and a call adds to each      *)
(* collection exactly as many entries as the file has exported declarations *)
(* for it: a rejection is neither retried nor replaced by something else    *)
C2_RejectedNeverPresent ==
    /\ \A f \in EntityFields : \A i \in 1..Len(document[f]) :
          can_export(document[f][i])
    /\ \A f \in {"structs", "classes"} : \A i \in 1..Len(document[f]) :
          \A g \in {"properties", "methods", "constructors"} :
              \A j \in 1..Len(document[f][i][g]) : can_export(document[f][i][g][j])
    /\ Called /\ returned = "Ok" =>
          \A f \in EntityFields :
              Len(document[f]) = Len(before[f]) + Len(ExportedDecls(input.content, f))

(* a call on a file with a rejected declaration, with a struct in the       *)
(* Document that kept one of its two properties, methods and constructors   *)
C2_Witness ==
    /\ Called /\ returned = "Ok"
    /\ RejectedDecls(input.content) # <<>>
    /\ \E i \in 1..Len(document.structs) :
          /\ Len(document.structs[i].properties) = 1
          /\ Len(document.structs[i].methods) = 1
          /\ Len(document.structs[i].constructors) = 1

----------------------------------------------------------------------------
(* Reading a struct or class body *)
BodyOf(decl) == Kids(decl, "struct_class_body")[1].kids

ModeOf(decl) == IF decl.rule = "element_struct" THEN "Struct" ELSE "Class"

HasReturnType(decl) == Kids(decl.kids[1], "value_type") # <<>>

(* the list an exported member goes to *)
MemberClass(child) ==
    IF child.rule # "element" \/ ~DeclOf(child).exp THEN "none"
    ELSE IF DeclOf(child).rule = "element_property" THEN "properties"
    ELSE IF DeclOf(child).rule = "element_function"
    THEN IF HasReturnType(DeclOf(child)) THEN "methods" ELSE "constructors"
    ELSE "none"

RECURSIVE PositionsFrom(_, _, _)
PositionsFrom(body, g, j) ==
    IF j > Len(body) THEN <<>>
    ELSE (IF MemberClass(body[j]) = g THEN <<j>> ELSE <<>>)
         \o PositionsFrom(body, g, j + 1)

LabelVisibility(t) ==
    IF t = T_private THEN "Private"
    ELSE IF t = T_protected THEN "Protected"
    ELSE IF t = T_public THEN "Public"
    ELSE "unrecognised"

Max(S) == CHOOSE x \in S : \A y \in S : y <= x

LabelsBefore(body, j) == {i \in 1..(j - 1) : body[i].rule = "visibility"}

(* the visibility in force at position j of a body *)
InForce(body, mode, j) ==
    IF LabelsBefore(body, j) = {}
    THEN (IF mode = "Struct" THEN "Public" ELSE "Private")
    ELSE LabelVisibility(body[Max(LabelsBefore(body, j))].text)

MemberLists == {"properties", "methods", "constructors"}

(* the entries a call added to collection f, in order *)
Added(f) == SubSeq(document[f], Len(before[f]) + 1, Len(document[f]))

(* C3: every member of a struct or class has the visibility in force where  *)
(* it stands: Public in a struct and Private in a class before any label,   *)
(* the visibility of the nearest label before it otherwise                  *)
C3_MemberVisibility ==
    Called /\ returned = "Ok" =>
        \A f \in {"structs", "classes"} :
            /\ Len(Added(f)) = Len(ExportedDecls(input.content, f))
            /\ \A k \in 1..Len(Added(f)) : \A g \in MemberLists :
                 /\ Len(Added(f)[k][g])
                      = Len(PositionsFrom(BodyOf(ExportedDecls(input.content, f)[k]), g, 1))
                 /\ \A m \in 1..Len(Added(f)[k][g]) :
                      \/ InForce(BodyOf(ExportedDecls(input.content, f)[k]),
                                 ModeOf(ExportedDecls(input.content, f)[k]),
                                 PositionsFrom(BodyOf(ExportedDecls(input.content, f)[k]),
                                               g, 1)[m]) = "unrecognised"
                      \/ Added(f)[k][g][m].visibility
                           = InForce(BodyOf(ExportedDecls(input.content, f)[k]),
                                     ModeOf(ExportedDecls(input.content, f)[k]),
                                     PositionsFrom(BodyOf(ExportedDecls(input.content, f)[k]),
                                                   g, 1)[m])

(* a class with a property before any label, a "public" label and a method *)
C3_Witness ==
    /\ Called /\ returned = "Ok"
    /\ \E c \in 1..Len(document.classes) :
          /\ Len(document.classes[c].properties) = 1
          /\ document.classes[c].properties[1].visibility = "Private"
          /\ Len(document.classes[c].methods) = 1
          /\ document.classes[c].methods[1].visibility = "Public"

NamesAt(body, positions) ==
    [m \in 1..Len(positions) |-> DeclName(DeclOf(body[positions[m]]))]

SeqNames(entries) == [m \in 1..Len(entries) |-> entries[m].name]

(* C4: the exported functions of a body without a return type are the       *)
(* constructors, in order, and those with one are the methods, in order;    *)
(* no entry of methods lacks a return type, whatever its name               *)
C4_ConstructorIffNoReturnType ==
    Called /\ returned = "Ok" =>
        \A f \in {"structs", "classes"} :
            /\ Len(Added(f)) = Len(ExportedDecls(input.content, f))
            /\ \A k \in 1..Len(Added(f)) :
                 /\ \A m \in 1..Len(Added(f)[k].methods) :
                       Added(f)[k].methods[m].return_type # None
                 /\ \A m \in 1..Len(Added(f)[k].constructors) :
                       Added(f)[k].constructors[m].return_type = None
                 /\ \A g \in {"methods", "constructors"} :
                       SeqNames(Added(f)[k][g])
                         = NamesAt(BodyOf(ExportedDecls(input.content, f)[k]),
                                   PositionsFrom(BodyOf(ExportedDecls(input.content, f)[k]),
                                                 g, 1))

(* a struct S with a constructor named G and a method named S *)
C4_Witness ==
    /\ Called /\ returned = "Ok"
    /\ \E c \in 1..Len(document.structs) :
          /\ document.structs[c].name = <<"S">>
          /\ \E m \in 1..Len(document.structs[c].constructors) :
                document.structs[c].constructors[m].name = <<"G">>
          /\ \E m \in 1..Len(document.structs[c].methods) :
                document.structs[c].methods[m].name = <<"S">>

----------------------------------------------------------------------------
(* Reading a delegate declaration *)
ArgsOf(decl) ==
    Filter(decl.kids, {"delegate_arguments", "dynamic_delegate_arguments"})[1].kids

(* Option of the text of the first child of a rule *)
TextOfKid(pair, rule) ==
    IF Kids(pair, rule) = <<>> THEN None ELSE Some(Kids(pair, rule)[1].text)

TrimmedOr(o, default) == IF o = None THEN default ELSE trim(o[1])

MulticastRules == {"element_multicast_delegate", "element_dyn_multicast_delegate"}
DynamicRules == {"element_dynamic_delegate", "element_dyn_multicast_delegate"}

(* C5: multicast is set exactly for the multicast and dynamic-multicast     *)
(* rules and dynamic exactly for the dynamic and dynamic-multicast rules;   *)
(* the flag is set when the arguments are read: an argument of a dynamic    *)
(* rule is named by its identifier child                                    *)
C5_DelegateFlags ==
    Called /\ returned = "Ok" =>
        /\ Len(Added("delegates")) = Len(ExportedDecls(input.content, "delegates"))
        /\ \A k \in 1..Len(Added("delegates")) :
             /\ Added("delegates")[k].multicast
                  = (ExportedDecls(input.content, "delegates")[k].rule \in MulticastRules)
             /\ Added("delegates")[k].dynamic
                  = (ExportedDecls(input.content, "delegates")[k].rule \in DynamicRules)
             /\ ExportedDecls(input.content, "delegates")[k].rule \in DynamicRules =>
                  \A a \in 1..Len(Added("delegates")[k].arguments) :
                      Added("delegates")[k].arguments[a].name
                        = TextOfKid(ArgsOf(ExportedDecls(input.content, "delegates")[k])[a],
                                    "identifier")

(* a dynamic multicast delegate with a named argument *)
C5_Witness ==
    /\ Called /\ returned = "Ok"
    /\ \E k \in 1..Len(document.delegates) :
          /\ document.delegates[k].multicast
          /\ document.delegates[k].dynamic
          /\ \E a \in 1..Len(document.delegates[k].arguments) :
                document.delegates[k].arguments[a].name = Some(T_Value)

(* the name the grammar of a rule gives an argument *)
ExpectedArgName(rule, arg) ==
    IF rule \in DynamicRules THEN TextOfKid(arg, "identifier")
    ELSE TextOfKid(arg, "delegate_argument_name")

(* C6: the arguments are those of the declaration, in order; each has the   *)
(* trimmed text of its value-type child as type; its name is the identifier *)
(* child for a dynamic rule and the delegate-argument-name child otherwise, *)
(* absent when that child is absent                                         *)
C6_DelegateArguments ==
    Called /\ returned = "Ok" =>
        /\ Len(Added("delegates")) = Len(ExportedDecls(input.content, "delegates"))
        /\ \A k \in 1..Len(Added("delegates")) :
             /\ Len(Added("delegates")[k].arguments)
                  = Len(ArgsOf(ExportedDecls(input.content, "delegates")[k]))
             /\ \A a \in 1..Len(Added("delegates")[k].arguments) :
                  /\ Added("delegates")[k].arguments[a].name
                       = ExpectedArgName(
                             ExportedDecls(input.content, "delegates")[k].rule,
                             ArgsOf(ExportedDecls(input.content, "delegates")[k])[a])
                  /\ Added("delegates")[k].arguments[a].value_type
                       = TrimmedOr(
                             TextOfKid(ArgsOf(ExportedDecls(input.content, "delegates")[k])[a],
                                       "value_type"), <<>>)

(* the dynamic, non-multicast delegate with the one argument (int32, Value) *)
C6_Witness ==
    /\ Called /\ returned = "Ok"
    /\ \E k \in 1..Len(document.delegates) :
          /\ document.delegates[k].dynamic
          /\ ~document.delegates[k].multicast
          /\ document.delegates[k].arguments
               = <<[ArgumentDefault EXCEPT !.name = Some(T_Value),
                                           !.value_type = T_int32]>>
          /\ ArgsOf(DeclOf(input.content.kids[1]))
               = <<Node("dynamic_delegate_argument", <<>>,
                        <<ValueType(T_int32), Ident(T_Value)>>)>>

(* C7 (as claimed): a delegate declared with a return type has it as        *)
(* return_type, trimmed, "void" included; one declared without has none     *)
C7_DelegateReturnType ==
    Called /\ returned = "Ok" =>
        /\ Len(Added("delegates")) = Len(ExportedDecls(input.content, "delegates"))
        /\ \A k \in 1..Len(Added("delegates")) :
             Added("delegates")[k].return_type
               = (IF TextOfKid(ExportedDecls(input.content, "delegates")[k], "value_type")
                       = None
                  THEN None
                  ELSE Some(trim(TextOfKid(ExportedDecls(input.content, "delegates")[k],
                                           "value_type")[1])))

----------------------------------------------------------------------------
(* Reading the proxies off an input file *)
ProxyDocs(proxy) == Kids(proxy, "doc_comment_lines")

TagNodes(proxy) == Concat([i \in 1..Len(Kids(proxy, "proxy_tags")) |->
                              Kids(proxy, "proxy_tags")[i].kids])

ProxyTags(proxy) == {TagNodes(proxy)[i].text : i \in 1..Len(TagNodes(proxy))}

ForwardedText(proxy) ==
    Concat([i \in 1..Len(Kids(proxy, "proxy_line_content")) |->
               Kids(proxy, "proxy_line_content")[i].text])

(* the declaration the forwarded text holds *)
ForwardedDecl(proxy) == DeclOf(GrammarElement(ForwardedText(proxy))[1])

(* the snippets inside the body of a forwarded function *)
BodySnippets(decl) ==
    IF decl.rule # "element_function" \/ Kids(decl, "function_body") = <<>> THEN <<>>
    ELSE Kids(Kids(decl, "function_body")[1], "snippet")

RECURSIVE CountWhere(_, _, _)
CountWhere(kids, rule, documented) ==
    IF kids = <<>> THEN 0
    ELSE (IF Head(kids).rule = rule /\ (ProxyDocs(Head(kids)) # <<>>) = documented
          THEN 1 ELSE 0) + CountWhere(Tail(kids), rule, documented)

(* the lines a walk over kids prints for names already registered: ids are  *)
(* the snippet identifiers and enums the enum names registered so far.      *)
(* A proxy contributes the snippets of its forwarded function body and      *)
(* nothing of its own.                                                      *)
RECURSIVE Warnings(_, _, _)
Warnings(kids, ids, enums) ==
    IF kids = <<>> THEN <<>>
    ELSE IF Head(kids).rule = "snippet"
    THEN (IF Head(kids).kids[1].text \in ids
          THEN <<<<"snippet", Head(kids).kids[1].text>>>> ELSE <<>>)
         \o Warnings(Tail(kids), ids \cup {Head(kids).kids[1].text}, enums)
    ELSE IF Head(kids).rule = "proxy"
    THEN Warnings(BodySnippets(ForwardedDecl(Head(kids))) \o Tail(kids), ids, enums)
    ELSE IF Head(kids).rule = "element" /\ DeclOf(Head(kids)).rule = "element_enum"
    THEN (IF DeclName(DeclOf(Head(kids))) \in enums
          THEN <<<<"enum", DeclName(DeclOf(Head(kids)))>>>> ELSE <<>>)
         \o Warnings(Tail(kids), ids, enums \cup {DeclName(DeclOf(Head(kids)))})
    ELSE Warnings(Tail(kids), ids, enums)

SnippetIds(m) == {e[1] : e \in m}

----------------------------------------------------------------------------
(* what a file's proxies are to leave in the collection of the forwarded    *)
(* declarations of one rule: name, doc comments and tag set, in order       *)
RECURSIVE ExpectedProxies(_, _)
ExpectedProxies(kids, rule) ==
    IF kids = <<>> THEN <<>>
    ELSE (IF /\ Head(kids).rule = "proxy"
             /\ ProxyDocs(Head(kids)) # <<>>
             /\ ForwardedDecl(Head(kids)).rule = rule
          THEN <<[name |-> DeclName(ForwardedDecl(Head(kids))),
                  doc_comments |-> Some(parse_doc_comments(Last(ProxyDocs(Head(kids))))),
                  tags |-> ProxyTags(Head(kids))]>>
          ELSE <<>>)
         \o ExpectedProxies(Tail(kids), rule)

ProxyView(entries) ==
    [i \in 1..Len(entries) |-> [name |-> entries[i].item.name,
                                doc_comments |-> entries[i].item.doc_comments,
                                tags |-> entries[i].tags]]

(* C9: each proxy block with doc comments whose forwarded text parses to a  *)
(* Function (resp. Property) appends exactly one Proxy to proxy_functions   *)
(* (resp. proxy_properties), in source order; its item carries the proxy's  *)
(* doc comments, not those of the forwarded text, and its tags are the set  *)
(* of the proxy's tag identifiers; any other forwarded kind appends nothing *)
C9_DocumentedProxyAppended ==
    Called /\ returned = "Ok" =>
        /\ ProxyView(Added("proxy_functions"))
             = ExpectedProxies(input.content.kids, "element_function")
        /\ ProxyView(Added("proxy_properties"))
             = ExpectedProxies(input.content.kids, "element_property")

(* a documented proxy with tags a, b, a forwarding a function that has doc  *)
(* comments of its own, then a documented proxy forwarding an enum          *)
C9_Witness ==
    /\ Called /\ returned = "Ok"
    /\ Len(input.content.kids) = 2
    /\ input.content.kids[1].rule = "proxy"
    /\ ForwardedText(input.content.kids[1]) = <<"/", "/", "/", "d", NL, "f", ";">>
    /\ input.content.kids[2].rule = "proxy"
    /\ ProxyDocs(input.content.kids[2]) # <<>>
    /\ ForwardedDecl(input.content.kids[2]).rule = "element_enum"
    /\ Len(document.proxy_functions) = 1
    /\ document.proxy_functions[1].tags = {<<"a">>, <<"b">>}
    /\ document.proxy_functions[1].item.name = <<"F">>
    /\ document.proxy_functions[1].item.doc_comments = Some(<<"x">>)
    /\ document.proxy_properties = <<>>

----------------------------------------------------------------------------
(* the count of leading whitespace characters of a line *)
LeadingCount(line) ==
    CHOOSE n \in 0..Len(line) :
        /\ \A i \in 1..n : is_whitespace(line[i])
        /\ n = Len(line) \/ ~is_whitespace(line[n + 1])

MinCount(ls) ==
    IF ls = <<>> THEN 0
    ELSE CHOOSE m \in {LeadingCount(ls[i]) : i \in 1..Len(ls)} :
             \A i \in 1..Len(ls) : m <= LeadingCount(ls[i])

(* every line without its first n characters, rejoined with newline *)
Unindented(ls, n) == join([i \in 1..Len(ls) |-> SubSeq(ls[i], n + 1, Len(ls[i]))])

SnippetText(content) == Kids(content.kids[1], "snippet_inner")[1].text

(* C10 (as claimed): the text registered for a snippet is its block with    *)
(* the same number of leading characters removed from every line, that      *)
(* number being the minimum over all lines of the count of leading          *)
(* whitespace characters, the lines rejoined with newline in their order    *)
C10_SnippetIndentation ==
    (/\ Called /\ returned = "Ok"
     /\ Len(input.content.kids) = 1
     /\ input.content.kids[1].rule = "snippet") =>
        /\ contains_key(document.snippets, input.content.kids[1].kids[1].text)
        /\ get(document.snippets, input.content.kids[1].kids[1].text)
             = Unindented(lines(SnippetText(input.content)),
                          MinCount(lines(SnippetText(input.content))))

----------------------------------------------------------------------------
(* the positions of a line where a comment marker starts *)
MarkerStarts(line) ==
    {i \in 1..(Len(line) - 2) : line[i] = "/" /\ line[i + 1] = "/" /\ line[i + 2] = "/"}

Min(S) == CHOOSE x \in S : \A y \in S : x <= y

(* s without its leading and trailing whitespace *)
Inked(s) == {i \in 1..Len(s) : ~is_whitespace(s[i])}

StripWS(s) == IF Inked(s) = {} THEN <<>> ELSE SubSeq(s, Min(Inked(s)), Max(Inked(s)))

ExpectedDocLine(line) ==
    IF MarkerStarts(line) = {} THEN <<>>
    ELSE StripWS(SubSeq(line, Min(MarkerStarts(line)) + 3, Len(line)))

(* the output lines of a doc-comment text: the pieces between its newlines *)
OutputLines(out) == SplitNL(out, <<>>)

DocText(content) == Kids(content.kids[1], "doc_comment_lines")[1].text

(* C11: the doc comments of a block of n source lines are n output lines in *)
(* the same order joined by newline (none for an empty block): the k-th is  *)
(* the text after the first marker of the k-th source line with the         *)
(* whitespace around it removed, or empty when the line has no marker       *)
C11_DocCommentLines ==
    (Called /\ returned = "Ok" /\ Len(document.enums) = 1) =>
        /\ IsSome(document.enums[1].doc_comments)
        /\ IF lines(DocText(input.content)) = <<>>
           THEN document.enums[1].doc_comments[1] = <<>>
           ELSE /\ Len(OutputLines(document.enums[1].doc_comments[1]))
                     = Len(lines(DocText(input.content)))
                /\ \A k \in 1..Len(lines(DocText(input.content))) :
                     OutputLines(document.enums[1].doc_comments[1])[k]
                         = ExpectedDocLine(lines(DocText(input.content))[k])

(* the block of a marker line, a blank line, a line without a marker and a  *)
(* line with four slashes gives a, two empty lines and /c                   *)
C11_Witness ==
    /\ Called /\ returned = "Ok"
    /\ Len(document.enums) = 1
    /\ DocText(input.content) = DocSample
    /\ document.enums[1].doc_comments = Some(<<"a", NL, NL, NL, "/", "c">>)

----------------------------------------------------------------------------
(* the snippet blocks a walk over kids registers, in processing order: the  *)
(* snippets of the file and those inside the bodies of its functions        *)
RECURSIVE SnippetsIn(_)
SnippetsIn(kids) ==
    IF kids = <<>> THEN <<>>
    ELSE (IF Head(kids).rule = "snippet" THEN <<Head(kids)>>
          ELSE IF Head(kids).rule = "element"
          THEN BodySnippets(DeclOf(Head(kids)))
          ELSE <<>>)
         \o SnippetsIn(Tail(kids))

SnippetId(snippet) == Kids(snippet, "identifier")[1].text

IdsIn(snips) == {SnippetId(snips[i]) : i \in 1..Len(snips)}

(* the text of the latest registration of id among snips *)
LatestText(snips, id) ==
    Kids(snips[Max({i \in 1..Len(snips) : SnippetId(snips[i]) = id})],
         "snippet_inner")[1].text

(* C12: registering a snippet under an identifier already present replaces  *)
(* the stored text and is not an error: after a call the mapping has exactly*)
(* one entry per identifier registered so far, an identifier the file       *)
(* registers holds the text of its latest registration, and every other     *)
(* identifier holds what it held before the call                            *)
C12_SnippetLastWriteWins ==
    Called =>
        /\ returned = "Ok"
        /\ SnippetIds(document.snippets)
             = SnippetIds(before.snippets) \cup IdsIn(SnippetsIn(input.content.kids))
        /\ \A e1 \in document.snippets : \A e2 \in document.snippets :
               e1[1] = e2[1] => e1 = e2
        /\ \A id \in SnippetIds(document.snippets) :
               get(document.snippets, id)
                 = IF id \in IdsIn(SnippetsIn(input.content.kids))
                   THEN LatestText(SnippetsIn(input.content.kids), id)
                   ELSE get(before.snippets, id)

(* s and t are registered by an earlier file; this file registers s again   *)
(* with another text: s holds the new text, t is as it was, and the call    *)
(* printed the line for s                                                   *)
C12_Witness ==
    /\ Called /\ returned = "Ok"
    /\ before.snippets = {<<<<"s">>, <<"y">>>>, <<<<"t">>, <<"y">>>>}
    /\ SnippetsIn(input.content.kids) = <<SnippetDecl(<<"s">>, <<"z">>)>>
    /\ document.snippets = {<<<<"s">>, <<"z">>>>, <<<<"t">>, <<"y">>>>}
    /\ log = <<<<"snippet", <<"s">>>>>>

----------------------------------------------------------------------------
(* C13: when the whole-file grammar does not match, the call returns an     *)
(* error and the Document is exactly as it was before the call              *)
C13_MalformedFileLeavesDocument ==
    (returned # "none" /\ GrammarFile(input.content) = None) =>
        /\ returned = "Err"
        /\ document = before
        /\ log = <<>>

(* a malformed file after a file that left a function, a snippet and a      *)
(* proxy in the Document                                                    *)
C13_Witness ==
    /\ returned = "Err"
    /\ GrammarFile(input.content) = None
    /\ Len(before.functions) = 1
    /\ Len(before.proxy_functions) = 1
    /\ before.snippets # {}
    /\ document = before

----------------------------------------------------------------------------
(* C14 (as claimed): a call fails only when the whole-file grammar does not *)
(* match; with a file the grammar matches, whatever its children (a name    *)
(* declared twice, a proxy without doc comments, a proxy whose forwarded    *)
(* text fails its own grammar, a declaration the export predicate rejects), *)
(* the call returns Ok and every exported enum and function of the file is  *)
(* appended                                                                 *)
C14_OnlySyntaxErrorReported ==
    returned # "none" =>
        IF GrammarFile(input.content) = None THEN returned = "Err"
        ELSE /\ returned = "Ok"
             /\ \A f \in {"enums", "functions"} :
                  Len(Added(f)) = Len(ExportedDecls(input.content, f))

----------------------------------------------------------------------------
(* a Document with the filename fields of its entries blanked *)
NoFile(entries) == [i \in 1..Len(entries) |-> [entries[i] EXCEPT !.filename = ""]]

NoFileTypes(entries) ==
    [i \in 1..Len(entries) |->
        [entries[i] EXCEPT !.filename = "",
                           !.methods = NoFile(@),
                           !.constructors = NoFile(@)]]

NoFileProxies(entries) ==
    [i \in 1..Len(entries) |-> [entries[i] EXCEPT !.item.filename = ""]]

Anonymous(doc) ==
    [doc EXCEPT !.enums = NoFile(@), !.functions = NoFile(@), !.delegates = NoFile(@),
                !.structs = NoFileTypes(@), !.classes = NoFileTypes(@),
                !.proxy_functions = NoFileProxies(@)]

(* what the last call would have left had it been given path q *)
UnderPath(q) == header_outcome(GrammarFile(input.content), before, file_name(q))

(* C15: the same content parsed from the same Document under another path   *)
(* returns the same and leaves a Document equal in everything except the    *)
(* filename fields                                                          *)
C15_FilenameDiagnosticOnly ==
    Called =>
        \A q \in Paths :
            /\ UnderPath(q).ret = returned
            /\ UnderPath(q).out = log
            /\ Anonymous(UnderPath(q).doc) = Anonymous(document)

(* a call that added an enum, a function and a proxy, which under the other *)
(* path are the same but for their filename                                 *)
C15_Witness ==
    /\ Called /\ returned = "Ok"
    /\ Len(Added("functions")) = 1
    /\ Len(Added("proxy_functions")) = 1
    /\ \E q \in Paths :
          /\ UnderPath(q).doc # document
          /\ Anonymous(UnderPath(q).doc) = Anonymous(document)

----------------------------------------------------------------------------
(* the member declaration of the one struct of a file, and the text a node  *)
(* of its signature spans                                                   *)
MemberDecl(content) == DeclOf(BodyOf(DeclOf(content.kids[1]))[1])

SpanOf(decl, rule) == Kids(decl.kids[1], rule)[1]

(* C16 (as claimed): every raw-text field is the text its parse-tree node   *)
(* spans with the whitespace around it removed and nothing else changed:    *)
(* the value type, name, array size and default value of a property, and    *)
(* the template declaration of a function                                   *)
C16_RawTextTrimmed ==
    (Called /\ returned = "Ok" /\ Len(document.structs) = 1) =>
        /\ \A k \in 1..Len(document.structs[1].properties) :
             /\ document.structs[1].properties[k].value_type
                  = StripWS(SpanOf(MemberDecl(input.content), "value_type").text)
             /\ document.structs[1].properties[k].name
                  = StripWS(SpanOf(MemberDecl(input.content), "identifier").text)
             /\ document.structs[1].properties[k].array
                  = Sized(StripWS(SpanOf(MemberDecl(input.content),
                                         "property_array").kids[1].text))
             /\ document.structs[1].properties[k].default_value
                  = Some(StripWS(SpanOf(MemberDecl(input.content),
                                        "default_value").kids[1].text))
        /\ \A k \in 1..Len(document.structs[1].methods) :
             document.structs[1].methods[k].template
               = Some(StripWS(SpanOf(MemberDecl(input.content),
                                     "template_declaration").text))

----------------------------------------------------------------------------
(* the names the file of the last call declares for collection f *)
Redeclared(f) ==
    {DeclName(ExportedDecls(input.content, f)[k]) :
         k \in 1..Len(ExportedDecls(input.content, f))}

(* C17 (as claimed): a call leaves every entry the Document already held    *)
(* where it was and as it was, except an entry whose name the file declares *)
(* again, which is overwritten in place by the new declaration (an entry    *)
(* built by this call carries this call's file name)                        *)
C17_ExistingEntriesKept ==
    (Called /\ returned = "Ok") =>
        \A f \in EntityFields :
            /\ Len(document[f]) >= Len(before[f])
            /\ \A i \in 1..Len(before[f]) :
                 IF before[f][i].name \in Redeclared(f)
                 THEN /\ document[f][i].name = before[f][i].name
                      /\ document[f][i].filename = file_name(input.path)
                 ELSE document[f][i] = before[f][i]

----------------------------------------------------------------------------
DeclNames(decls) == [k \in 1..Len(decls) |-> DeclName(decls[k])]

(* C18: every collection holds its entries in processing order: those of    *)
(* the earlier file first, as they were, then those of this file in the     *)
(* source order of their declarations; the properties, methods and          *)
(* constructors of each struct or class follow the source order of the body *)
C18_ProcessingOrder ==
    (Called /\ returned = "Ok") =>
        /\ \A f \in EntityFields :
             /\ SeqNames(document[f])
                  = SeqNames(before[f]) \o DeclNames(ExportedDecls(input.content, f))
             /\ \A i \in 1..Len(document[f]) :
                  (document[f][i].filename = file_name(input.path))
                      <=> (i > Len(before[f]))
        /\ \A f \in {"structs", "classes"} :
             \A k \in 1..Len(Added(f)) : \A g \in MemberLists :
                 SeqNames(Added(f)[k][g])
                   = NamesAt(BodyOf(ExportedDecls(input.content, f)[k]),
                             PositionsFrom(BodyOf(ExportedDecls(input.content, f)[k]),
                                           g, 1))

(* a first file with enum B and class S, then a file with enums A and B *)
C18_Witness ==
    /\ Called /\ returned = "Ok"
    /\ SeqNames(before.enums) = <<<<"B">>>>
    /\ SeqNames(document.enums) = <<<<"B">>, <<"A">>, <<"B">>>>
    /\ Len(document.classes) = 1
    /\ SeqNames(document.classes[1].properties) = <<<<"P">>, <<"Q">>>>
    /\ SeqNames(document.classes[1].methods) = <<<<"M">>, <<"N">>>>
    /\ SeqNames(document.classes[1].constructors) = <<<<"S">>, <<"T">>>>

----------------------------------------------------------------------------
(* Reading a specifier list *)
IsAttribute(item) == item.rule \in {"specifier_single", "specifier_pair"}

ExpectedAttribute(item) ==
    IF item.rule = "specifier_single"
    THEN [tag |-> "Single", key |-> item.kids[1].text, value |-> <<>>]
    ELSE [tag |-> "Pair", key |-> item.kids[1].text, value |-> item.kids[2].text]

(* the single and pair children among items, as attributes, in order *)
RECURSIVE AttributesAmong(_)
AttributesAmong(items) ==
    IF items = <<>> THEN <<>>
    ELSE (IF IsAttribute(Head(items)) THEN <<ExpectedAttribute(Head(items))>> ELSE <<>>)
         \o AttributesAmong(Tail(items))

(* the single and pair children of the meta groups among items, in order *)
RECURSIVE MetaAmong(_)
MetaAmong(items) ==
    IF items = <<>> THEN <<>>
    ELSE (IF Head(items).rule = "specifier_meta"
          THEN AttributesAmong(Head(items).kids) ELSE <<>>)
         \o MetaAmong(Tail(items))

(* the children of the specifier list of the one declaration of a file:     *)
(* those of the first child of its specifier node, none without one         *)
SpecifierItems(content) ==
    IF DeclOf(content.kids[1]).kids[1].kids = <<>> THEN <<>>
    ELSE DeclOf(content.kids[1]).kids[1].kids[1].kids

(* the entries the last call added, over the four collections of the       *)
(* declarations that carry specifiers                                       *)
AddedSpecified ==
    Added("enums") \o Added("classes") \o Added("functions") \o Added("delegates")

(* C19: the specifiers of a declaration hold, in source order, the          *)
(* top-level single and pair children in attributes (a pair as key then     *)
(* value) and the single and pair children of the meta groups in meta, and  *)
(* a specifier list without a first child gives both lists empty            *)
C19_SpecifierRouting ==
    (Called /\ returned = "Ok") =>
        /\ Len(AddedSpecified) = 1
        /\ \A k \in 1..Len(AddedSpecified) :
             /\ IsSome(AddedSpecified[k].specifiers)
             /\ AddedSpecified[k].specifiers[1].attributes
                  = AttributesAmong(SpecifierItems(input.content))
             /\ AddedSpecified[k].specifiers[1].meta
                  = MetaAmong(SpecifierItems(input.content))

(* a function whose list is the pair (k, v) followed by a meta group of the *)
(* pair (k, v) and the single b                                             *)
C19_Witness ==
    /\ Called /\ returned = "Ok"
    /\ Len(document.functions) = 1
    /\ Len(SpecifierItems(input.content)) = 2
    /\ document.functions[1].specifiers
         = Some([attributes |-> <<[tag |-> "Pair", key |-> <<"k">>, value |-> <<"v">>]>>,
                 meta |-> <<[tag |-> "Pair", key |-> <<"k">>, value |-> <<"v">>],
                            [tag |-> "Single", key |-> <<"b">>, value |-> <<>>]>>])

----------------------------------------------------------------------------
(* the labels before position j whose text is private, protected or public *)
RecognisedBefore(body, j) ==
    {i \in LabelsBefore(body, j) : LabelVisibility(body[i].text) # "unrecognised"}

(* the visibility threaded to position j when other labels change nothing *)
ThreadedAt(body, mode, j) ==
    IF RecognisedBefore(body, j) = {}
    THEN (IF mode = "Struct" THEN "Public" ELSE "Private")
    ELSE LabelVisibility(body[Max(RecognisedBefore(body, j))].text)

(* the positions of the members of list g that stand after a label whose    *)
(* text is none of the three, with no other label in between                *)
AfterUnrecognised(body, g) ==
    {m \in 1..Len(PositionsFrom(body, g, 1)) :
        /\ LabelsBefore(body, PositionsFrom(body, g, 1)[m]) # {}
        /\ InForce(body, "Struct", PositionsFrom(body, g, 1)[m]) = "unrecognised"}

(* C20: a visibility label whose text is not private, protected or public   *)
(* is not an error and leaves the threaded visibility as it was: the        *)
(* members after it carry the visibility of the last recognised label       *)
(* before them, or the mode default when there is none                      *)
C20_UnrecognisedLabelIgnored ==
    Called =>
        /\ returned = "Ok"
        /\ \A f \in {"structs", "classes"} :
             \A k \in 1..Len(Added(f)) : \A g \in MemberLists :
                 \A m \in AfterUnrecognised(BodyOf(ExportedDecls(input.content, f)[k]), g) :
                     Added(f)[k][g][m].visibility
                       = ThreadedAt(BodyOf(ExportedDecls(input.content, f)[k]),
                                    ModeOf(ExportedDecls(input.content, f)[k]),
                                    PositionsFrom(BodyOf(ExportedDecls(input.content, f)[k]),
                                                  g, 1)[m])

(* a class whose body is the label protected, the label published and a     *)
(* property: the property is Protected                                      *)
C20_Witness ==
    /\ Called /\ returned = "Ok"
    /\ Len(document.classes) = 1
    /\ BodyOf(DeclOf(input.content.kids[1]))
         = <<Label(T_protected), Label(T_published),
             SetLine(ElementOf(<<>>, PropertyDecl(<<"P">>, TRUE)), 1)>>
    /\ Len(document.classes[1].properties) = 1
    /\ document.classes[1].properties[1].visibility = "Protected"

----------------------------------------------------------------------------
Visibilities == {"Public", "Protected", "Private"}

(* the positions of a body that hold a nested struct or class *)
NestedPositions(body) ==
    {j \in 1..Len(body) :
        /\ body[j].rule = "element"
        /\ DeclOf(body[j]).rule \in {"element_struct", "element_class"}}

(* the StructClass a body's element parses to under the enclosing           *)
(* visibility v                                                             *)
NestedParsed(element, v) ==
    parse_element(element, v, World(DocumentDefault, <<>>, FALSE), <<"T">>).el.item

(* the members of a nested struct or class carry what its own body threads  *)
(* from its own mode default                                                *)
NestedThreaded(element, v) ==
    \A g \in MemberLists :
        /\ Len(NestedParsed(element, v)[g])
             = Len(PositionsFrom(BodyOf(DeclOf(element)), g, 1))
        /\ \A m \in 1..Len(NestedParsed(element, v)[g]) :
             NestedParsed(element, v)[g][m].visibility
               = ThreadedAt(BodyOf(DeclOf(element)), ModeOf(DeclOf(element)),
                            PositionsFrom(BodyOf(DeclOf(element)), g, 1)[m])

(* the members of list g of a body that stand after a nested struct or class *)
AfterNested(body, g) ==
    {m \in 1..Len(PositionsFrom(body, g, 1)) :
        \E j \in NestedPositions(body) : j < PositionsFrom(body, g, 1)[m]}

(* C21: the threaded visibility belongs to one body-parsing call: a struct  *)
(* or class nested in a body is parsed from its own mode default whatever   *)
(* the enclosing visibility is, and the members of the enclosing body that  *)
(* follow it carry the visibility the enclosing body's own labels give,     *)
(* whatever labels the nested body holds                                    *)
C21_NestedVisibilityLocal ==
    Called =>
        /\ returned = "Ok"
        /\ \A f \in {"structs", "classes"} :
             \A k \in 1..Len(Added(f)) :
                 /\ \A j \in NestedPositions(BodyOf(ExportedDecls(input.content, f)[k])) :
                      \A v \in Visibilities :
                          NestedThreaded(BodyOf(ExportedDecls(input.content, f)[k])[j], v)
                 /\ \A g \in MemberLists :
                      /\ Len(Added(f)[k][g])
                           = Len(PositionsFrom(BodyOf(ExportedDecls(input.content, f)[k]),
                                               g, 1))
                      /\ \A m \in AfterNested(BodyOf(ExportedDecls(input.content, f)[k]), g) :
                           Added(f)[k][g][m].visibility
                             = ThreadedAt(BodyOf(ExportedDecls(input.content, f)[k]),
                                          ModeOf(ExportedDecls(input.content, f)[k]),
                                          PositionsFrom(
                                              BodyOf(ExportedDecls(input.content, f)[k]),
                                              g, 1)[m])

(* a class whose body is a nested struct with the label public and a        *)
(* property, then a property: the class's property is Private               *)
C21_Witness ==
    /\ Called /\ returned = "Ok"
    /\ Len(document.classes) = 1
    /\ Len(BodyOf(DeclOf(input.content.kids[1]))) = 2
    /\ NestedPositions(BodyOf(DeclOf(input.content.kids[1]))) = {1}
    /\ ModeOf(DeclOf(BodyOf(DeclOf(input.content.kids[1]))[1])) = "Struct"
    /\ BodyOf(DeclOf(BodyOf(DeclOf(input.content.kids[1]))[1]))[1].text = T_public
    /\ Len(NestedParsed(BodyOf(DeclOf(input.content.kids[1]))[1], "Private").properties) = 1
    /\ Len(document.classes[1].properties) = 1
    /\ document.classes[1].properties[1].visibility = "Private"

----------------------------------------------------------------------------
(* the walk of a file whose children are the snippet blocks of kids, those  *)
(* of the function bodies standing at file level                            *)
FlatWalk(kids, doc) ==
    parse_file_loop(World(doc, <<>>, FALSE), SnippetsIn(kids), <<"T">>)

(* the printed lines of one kind *)
RECURSIVE OfKind(_, _)
OfKind(out, kind) ==
    IF out = <<>> THEN <<>>
    ELSE (IF Head(out)[1] = kind THEN <<Head(out)>> ELSE <<>>) \o OfKind(Tail(out), kind)

(* a function declaration without its body *)
Bodiless(decl) ==
    [decl EXCEPT !.kids = Filter(@, {"ufunction", "function_signature",
                                     "constructor_signature"})]

(* the Function a declaration parses to at file level *)
FunctionOf(decl, filename) ==
    parse_element_function(decl, None, "Public",
                           World(DocumentDefault, <<>>, FALSE), filename).el

(* C22: a snippet declared in a function body is registered as a snippet    *)
(* at file level with the same identifier and text is (same indentation     *)
(* stripping, same replacement of an identifier already present, same       *)
(* printed line), and nothing else of the body changes the Document or the  *)
(* Function: the call ends as the walk of the file's snippet blocks at file *)
(* level ends, leaves the same mapping and the same printed snippet lines,  *)
(* adds the Function the declaration without its body gives, and leaves     *)
(* every other collection as it was                                         *)
C22_BodySnippetAsTopLevel ==
    Called =>
        /\ (returned = "Panic") = FlatWalk(input.content.kids, before).panic
        /\ returned = "Ok" =>
             /\ document.snippets = FlatWalk(input.content.kids, before).doc.snippets
             /\ OfKind(log, "snippet") = FlatWalk(input.content.kids, before).out
             /\ Len(Added("functions")) = Len(ExportedDecls(input.content, "functions"))
             /\ \A k \in 1..Len(Added("functions")) :
                    Added("functions")[k]
                      = FunctionOf(Bodiless(ExportedDecls(input.content, "functions")[k]),
                                   file_name(input.path))
             /\ \A f \in {"enums", "structs", "classes", "delegates",
                          "proxy_functions", "proxy_properties"} :
                    document[f] = before[f]

(* a file with the snippet s of text y, then a function whose body holds    *)
(* the snippet s with the text z behind one space: s holds z, the line for  *)
(* s is printed, and the function is added                                  *)
C22_Witness ==
    /\ Called /\ returned = "Ok"
    /\ Len(input.content.kids) = 2
    /\ input.content.kids[1].rule = "snippet"
    /\ input.content.kids[2].rule = "element"
    /\ BodySnippets(DeclOf(input.content.kids[2]))
         = <<SetLine(SnippetDecl(<<"s">>, <<" ", "z">>), 2)>>
    /\ document.snippets = {<<<<"s">>, <<"z">>>>}
    /\ log = <<<<"snippet", <<"s">>>>>>
    /\ Len(document.functions) = 1

----------------------------------------------------------------------------
(* the snippet blocks a walk over kids meets, in processing order: those at *)
(* file level, those in the bodies of functions (at file level, in a struct *)
(* or class body, or forwarded by a proxy)                                  *)
RECURSIVE RegisteredIn(_)
RegisteredIn(kids) ==
    IF kids = <<>> THEN <<>>
    ELSE (IF Head(kids).rule = "snippet" THEN <<Head(kids)>>
          ELSE IF Head(kids).rule = "proxy"
          THEN BodySnippets(ForwardedDecl(Head(kids)))
          ELSE IF Head(kids).rule # "element" THEN <<>>
          ELSE IF DeclOf(Head(kids)).rule \in {"element_struct", "element_class"}
          THEN RegisteredIn(BodyOf(DeclOf(Head(kids))))
          ELSE BodySnippets(DeclOf(Head(kids))))
         \o RegisteredIn(Tail(kids))

(* the children of a file that hold a snippet in a function body and leave  *)
(* no function behind: a rejected function, a rejected struct or class, a   *)
(* proxy without doc comments                                               *)
NotRetained(kids) ==
    {i \in 1..Len(kids) :
        /\ RegisteredIn(<<kids[i]>>) # <<>>
        /\ \/ kids[i].rule = "proxy" /\ ProxyDocs(kids[i]) = <<>>
           \/ kids[i].rule = "element" /\ ~DeclOf(kids[i]).exp}

(* C23: the snippets of a function body are registered while the function   *)
(* is parsed, whatever becomes of the function: after a call the mapping    *)
(* holds every snippet met in the file, those of rejected functions and of  *)
(* functions forwarded by a proxy without doc comments included, each under *)
(* the text of its latest registration, and the lines printed for           *)
(* identifiers registered twice follow the processing order; the rejected   *)
(* functions and the dropped proxies themselves are in no collection        *)
C23_BodySnippetsSurviveRejection ==
    Called =>
        /\ returned = "Ok"
        /\ SnippetIds(document.snippets)
             = SnippetIds(before.snippets) \cup IdsIn(RegisteredIn(input.content.kids))
        /\ \A i \in NotRetained(input.content.kids) :
             \A id \in IdsIn(RegisteredIn(<<input.content.kids[i]>>)) :
                 get(document.snippets, id)
                   = LatestText(RegisteredIn(input.content.kids), id)
        /\ OfKind(log, "snippet")
             = Warnings(RegisteredIn(input.content.kids), SnippetIds(before.snippets), {})
        /\ \A f \in {"functions", "structs"} :
             Len(Added(f)) = Len(ExportedDecls(input.content, f))
        /\ Len(Added("proxy_functions"))
             = Len(ExpectedProxies(input.content.kids, "element_function"))

(* a proxy without doc comments that forwards a function with the snippet s *)
(* in its body, then a rejected struct whose rejected method holds the      *)
(* snippet t: both snippets are registered and no entity is added           *)
C23_Witness ==
    /\ Called /\ returned = "Ok"
    /\ Len(input.content.kids) = 2
    /\ NotRetained(input.content.kids) = {1, 2}
    /\ input.content.kids[1].rule = "proxy"
    /\ input.content.kids[2].rule = "element"
    /\ document.snippets = {<<<<"s">>, <<"y">>>>, <<<<"t">>, <<"c">>>>}
    /\ document.functions = <<>>
    /\ document.structs = <<>>
    /\ document.proxy_functions = <<>>

----------------------------------------------------------------------------
(* the declarations of one rule that the documented proxies of a file       *)
(* forward, in source order                                                 *)
RECURSIVE DocumentedForwards(_, _)
DocumentedForwards(kids, rule) ==
    IF kids = <<>> THEN <<>>
    ELSE (IF /\ Head(kids).rule = "proxy"
             /\ ProxyDocs(Head(kids)) # <<>>
             /\ ForwardedDecl(Head(kids)).rule = rule
          THEN <<ForwardedDecl(Head(kids))>> ELSE <<>>)
         \o DocumentedForwards(Tail(kids), rule)

ProxyFields ==
    {<<"proxy_functions", "element_function">>, <<"proxy_properties", "element_property">>}

(* C24: proxy entries are appended without asking the export predicate and  *)
(* without looking at the names already there: every proxy with doc         *)
(* comments that forwards a function or a property adds one entry, also     *)
(* when the predicate rejects the forwarded item or an entry of that name   *)
(* exists, no line is printed for it, and the item's visibility is Public   *)
C24_ProxiesUnfiltered ==
    Called =>
        /\ returned = "Ok"
        /\ \A p \in ProxyFields :
             /\ Len(Added(p[1])) = Len(DocumentedForwards(input.content.kids, p[2]))
             /\ \A k \in 1..Len(Added(p[1])) :
                  /\ Added(p[1])[k].item.name
                       = DeclName(DocumentedForwards(input.content.kids, p[2])[k])
                  /\ Added(p[1])[k].item.exp
                       = DocumentedForwards(input.content.kids, p[2])[k].exp
                  /\ Added(p[1])[k].item.visibility = "Public"
        /\ \A i \in 1..Len(log) : log[i][1] \in {"snippet", "enum"}

(* two proxies with doc comments that forward the same function, which the  *)
(* export predicate rejects: two entries of the same name, nothing printed  *)
C24_Witness ==
    /\ Called /\ returned = "Ok" /\ log = <<>>
    /\ Len(DocumentedForwards(input.content.kids, "element_function")) = 2
    /\ Len(document.proxy_functions) = 2
    /\ document.proxy_functions[1].item.name = document.proxy_functions[2].item.name
    /\ ~can_export(document.proxy_functions[1].item)
    /\ ~can_export(document.proxy_functions[2].item)
    /\ document.proxy_functions[2].item.visibility = "Public"

----------------------------------------------------------------------------
(* an element is a member when it declares a property or a function *)
IsMember(child) ==
    child.rule # "element"
    \/ DeclOf(child).rule \in {"element_property", "element_function"}

RECURSIVE KeepMembers(_)
KeepMembers(body) ==
    IF body = <<>> THEN <<>>
    ELSE (IF IsMember(Head(body)) THEN <<Head(body)>> ELSE <<>>)
         \o KeepMembers(Tail(body))

(* a struct or class declaration without the nested enums, structs, classes *)
(* and delegates of its body                                                *)
PrunedDecl(decl) ==
    [decl EXCEPT !.kids =
        [i \in 1..Len(decl.kids) |->
            IF decl.kids[i].rule = "struct_class_body"
            THEN [decl.kids[i] EXCEPT !.kids = KeepMembers(decl.kids[i].kids)]
            ELSE decl.kids[i]]]

PrunedElement(element) ==
    [element EXCEPT !.kids = SubSeq(element.kids, 1, Len(element.kids) - 1)
                              \o <<PrunedDecl(DeclOf(element))>>]

(* the children of a file without the properties at file level and without *)
(* the nested declarations of its structs and classes                      *)
RECURSIVE PrunedFile(_)
PrunedFile(kids) ==
    IF kids = <<>> THEN <<>>
    ELSE (IF Head(kids).rule # "element" THEN <<Head(kids)>>
          ELSE IF DeclOf(Head(kids)).rule = "element_property" THEN <<>>
          ELSE IF DeclOf(Head(kids)).rule \in {"element_struct", "element_class"}
          THEN <<PrunedElement(Head(kids))>>
          ELSE <<Head(kids)>>)
         \o PrunedFile(Tail(kids))

PrunedWalk(kids, doc, filename) ==
    parse_file_loop(World(doc, <<>>, FALSE), PrunedFile(kids), filename)

(* the nested enums, structs, classes and delegates of a body *)
Discarded(body) == {j \in 1..Len(body) : ~IsMember(body[j])}

(* C25: an element that has no destination is discarded without error: a    *)
(* property at file level and an enum, struct, class or delegate nested in  *)
(* a struct or class body leave the Document and the enclosing struct or    *)
(* class as the file without them leaves them; each entity collection grows *)
(* by the exported declarations of the file's top level and each member     *)
(* list holds the members of the body itself                                *)
C25_NoDestinationDiscarded ==
    Called =>
        /\ returned = "Ok"
        /\ document = PrunedWalk(input.content.kids, before, file_name(input.path)).doc
        /\ log = PrunedWalk(input.content.kids, before, file_name(input.path)).out
        /\ \A f \in EntityFields :
             Len(Added(f)) = Len(ExportedDecls(input.content, f))
        /\ \A f \in {"proxy_functions", "proxy_properties", "snippets"} :
             document[f] = before[f]
        /\ \A f \in {"structs", "classes"} :
             \A k \in 1..Len(Added(f)) : \A g \in MemberLists :
                 Len(Added(f)[k][g])
                   = Len(PositionsFrom(BodyOf(ExportedDecls(input.content, f)[k]), g, 1))

(* a property at file level, then a struct whose body is a nested enum and  *)
(* a property: the Document holds the struct with its one property and      *)
(* nothing else                                                             *)
C25_Witness ==
    /\ Called /\ returned = "Ok" /\ log = <<>>
    /\ Len(input.content.kids) = 2
    /\ DeclOf(input.content.kids[1]).rule = "element_property"
    /\ DeclOf(input.content.kids[2]).rule = "element_struct"
    /\ Discarded(BodyOf(DeclOf(input.content.kids[2]))) = {1}
    /\ DeclOf(BodyOf(DeclOf(input.content.kids[2]))[1]).rule = "element_enum"
    /\ Len(document.structs) = 1
    /\ Len(document.structs[1].properties) = 1
    /\ document.structs[1].methods = <<>>
    /\ document.structs[1].constructors = <<>>
    /\ document.enums = <<>>
    /\ document.functions = <<>>
    /\ document.classes = <<>>
    /\ document.delegates = <<>>

----------------------------------------------------------------------------
(* C26 (as claimed): stripping the indentation of a snippet never fails:    *)
(* for every snippet text, those whose leading whitespace characters take   *)
(* more than one byte included, the strip count is a cut position every     *)
(* line of the block accepts, so every line yields a remainder and the call *)
(* does not panic                                                           *)
C26_StrippingNeverFails ==
    (/\ Called
     /\ Len(input.content.kids) = 1
     /\ input.content.kids[1].rule = "snippet") =>
        /\ returned = "Ok"
        /\ \A i \in 1..Len(lines(SnippetText(input.content))) :
             slice_from(lines(SnippetText(input.content))[i],
                        snippet_level(SnippetText(input.content))) # None

----------------------------------------------------------------------------
(* the outermost call of include_book_index has returned *)
BookDone == calls # <<>> /\ stack = <<>>

starts_with(s, prefix) ==
    Len(s) >= Len(prefix) /\ SubSeq(s, 1, Len(prefix)) = prefix

(* every recursive call is made on a path longer than its caller's *)
PathsGrow ==
    \A i \in 1..Len(calls) :
        calls[i].parent # None => Len(calls[i].path) > Len(calls[i].parent[1])

(* a call writes only when its path's index.txt is a key of the map: every  *)
(* call in progress has found it, every file written lies under the path of *)
(* a call that found it, and nothing is written when no call did            *)
OutputGated ==
    /\ \A i \in 1..Len(stack) :
         contains_key(input_files, stack[i].path \o T_index_txt)
    /\ \A e \in output_files :
         \E i \in 1..Len(calls) :
             calls[i].found /\ starts_with(e[1], T_src \o calls[i].path)
    /\ (\A i \in 1..Len(calls) : ~calls[i].found) => index = <<>> /\ output_files = {}

(* C27: include_book_index terminates for every map of input files and      *)
(* every directory it is started on: the outermost call returns, every      *)
(* recursive call is made on a strictly longer path, and a call produces    *)
(* output only when its path's index.txt is a key of the map                *)
C27_BookIndexTerminates == (<>BookDone) /\ [](PathsGrow /\ OutputGated)

(* started on the root of a book whose index.txt names the directory a: the *)
(* calls go down to a/a, whose line without a name makes a call on a/a//    *)
(* that finds no index.txt, and all of them have returned                   *)
C27_Witness ==
    /\ BookDone
    /\ Len(calls) = 4
    /\ calls[1].dir = None
    /\ calls[3].found
    /\ calls[4].parent = Some(<<"a", "/", "a", "/">>)
    /\ calls[4].path = <<"a", "/", "a", "/", "/">>
    /\ ~calls[4].found
    /\ contains_key(output_files, T_src \o <<"a", "/", "a", "/">> \o T_index_md)

============================================================================
